---------------------------- MODULE Spec2Model ----------------------------
(***************************************************************************)
(* Verification model of the TCD1304 "blackpill" firmware communications   *)
(* core: the byte channel (ring_buffer.c), the transport's inbound channel *)
(* fed from interrupt context (usb_transport.c) and the frame codec        *)
(* (ccd_data_layer.c).                                                     *)
(*                                                                         *)
(* Three specifications share the module:                                  *)
(*   Spec       the byte channel used from one context (no preemption)     *)
(*   SpecIsr    the inbound channel: the loop-context consumer is split at *)
(*              every access of a volatile field, the interrupt-context    *)
(*              producer runs to completion between any two of them        *)
(*   SpecCodec  the frame codec: init, process_readout, validate_frame,    *)
(*              calculate_crc16, get_frame_count, reset_counter            *)
(***************************************************************************)
EXTENDS Integers, Sequences, FiniteSets, TLC

VARIABLES
    rb,             \* Spec: the ring_buffer_t under test (buffer, head, tail, size)
    last,           \* the last operation executed: name, arguments, results
    trip,           \* Spec, history: bytes offered/accepted since the channel was
                    \*   empty and bytes read back since (round trip bookkeeping)
    peeked,         \* Spec, history: result of a successful peek not yet followed
                    \*   by a read or a clear
    rx,             \* SpecIsr: rx_ring_buffer of usb_transport.c
    stats,          \* SpecIsr: usb_transport.c `stats`
    cpc,            \* SpecIsr, SpecRace: position of the loop context inside its
                    \*   current call
    creg,           \* SpecIsr: the loop context's locals (values it has loaded)
    accepted,       \* SpecIsr, history: bytes accepted by the producer, in order
                    \*   (SpecOrder: by the outbound channel)
    delivered,      \* SpecIsr, history: bytes returned by successful reads, in order
                    \*   (SpecOrder: bytes of the chunks the device accepted)
    levels,         \* SpecIsr, history: fill levels the channel had during the
                    \*   current available()/free_space() call
    initialized,    \* SpecCodec: ccd_data_layer.c `initialized`
    frame_counter,  \* SpecCodec: ccd_data_layer.c `frame_counter`
    frame_out,      \* SpecCodec: the caller's CCD_Frame_t, as the bytes in memory
    damage,         \* SpecCodec, history: byte positions of frame_out that no longer
                    \*   hold what process_readout wrote (all of them before the
                    \*   first frame is built)
    built,          \* SpecCodec, history: number of frames built (bounds the run)
    tx,             \* SpecCmd: tx_ring_buffer of usb_transport.c
    acquisition_state,      \* SpecCmd: command_layer.c `acquisition_state`
    integration_time_us,    \* SpecCmd: command_layer.c `integration_time_us`
    command_buffer, \* SpecCmd: command_layer.c `command_buffer`, its first
                    \*   command_index characters (the rest is never read)
    tim5,           \* SpecCmd: the TIM5 peripheral behind `htim5`
    events,         \* SpecCmd, history: what the last command_layer_process call
                    \*   did at each terminator and at each overflow
    line_chars,     \* SpecCmd, history: characters consumed since the last
                    \*   terminator
    recent,         \* SpecCmd, history: the most recent of START and STOP
                    \*   dispatched since command_layer_init (<<>> if none)
    sends,          \* SpecCmd, history: number of packets received (bounds the run)
    tx_in_progress, \* SpecTx: usb_transport.c `tx_in_progress`
    cdc,            \* SpecTx: the USB CDC device behind CDC_Transmit_FS: the
                    \*   transfers it has accepted and not yet reported complete
    writers,        \* SpecTx, history: for each shared field the contexts (main
                    \*   loop, interrupt) that have changed it since initialisation
    calls           \* SpecTx, history: number of transport calls made (bounds
                    \*   the run)

chanVars  == <<rb, trip, peeked>>
isrVars   == <<rx, stats, cpc, creg, accepted, delivered, levels>>
codecVars == <<initialized, frame_counter, frame_out, damage, built>>
cmdVars   == <<tx, acquisition_state, integration_time_us, command_buffer, tim5,
               events, line_chars, recent, sends>>
xferVars  == <<tx_in_progress, cdc, writers, calls>>
vars      == <<rb, last, trip, peeked, rx, stats, cpc, creg, accepted, delivered, levels,
               initialized, frame_counter, frame_out, damage, built,
               tx, acquisition_state, integration_time_us, command_buffer, tim5,
               events, line_chars, recent, sends,
               tx_in_progress, cdc, writers, calls>>

(***************************************************************************)
(* Bounds of the model.                                                    *)
(***************************************************************************)
\* Largest channel capacity explored (the firmware uses 256 and 512).
MaxSize == 3

\* Byte values the channel operations are exercised with.
ByteValues == {0, 255}

\* A storage slot that was never written holds a value outside the byte range.
Unwritten == 255 + 1

(***************************************************************************)
(* Fixed-width arithmetic.                                                 *)
(***************************************************************************)
\* Conversion to uint16_t / uint8_t.
U16(x) == x % 65536
U8(x)  == x % 256

\* All sequences over S of length 0..n.
SeqsUpTo(S, n) == UNION {[1..k -> S] : k \in 0..n}

IsPrefix(s, t) == Len(s) <= Len(t) /\ SubSeq(t, 1, Len(s)) = s

(***************************************************************************)
(* ring_buffer.c as functions of the ring_buffer_t value.  Each returns    *)
(* the ring_buffer_t after the call together with the results.             *)
(***************************************************************************)
ring_buffer_init(buffer, size) ==
    [buffer |-> buffer, size |-> size, head |-> 0, tail |-> 0]

\* Plausible slip: the index is advanced without wrapping at the capacity.
NextIndexNoWrap(i, size) == U16(i + 1)

\* (i + 1) % rb->size, stored in a uint16_t.
NextIndex(i, size) == U16((i + 1) % size)

\* Plausible slip: the full check is left out, so the producer overwrites
\* bytes the consumer has not read yet.
ring_buffer_write_Overwrite(r, data) ==
    [rb |-> [r EXCEPT !.buffer[r.head] = data,
                      !.head = U16((r.head + 1) % r.size)],
     ret |-> TRUE]

\* Plausible slip: the byte is stored at the advanced index instead of at head.
ring_buffer_write_StoreAtNext(r, data) ==
    LET next_head == NextIndex(r.head, r.size) IN
    IF next_head = r.tail
    THEN [rb |-> r, ret |-> FALSE]
    ELSE [rb |-> [r EXCEPT !.buffer[next_head] = data, !.head = next_head],
          ret |-> TRUE]

ring_buffer_write(r, data) ==
    LET next_head == NextIndex(r.head, r.size) IN
    IF next_head = r.tail
    THEN [rb |-> r, ret |-> FALSE]
    ELSE [rb |-> [r EXCEPT !.buffer[r.head] = data, !.head = next_head],
          ret |-> TRUE]

\* out is <<>> when *data is left untouched, <<b>> when b is stored in *data.
ring_buffer_read(r) ==
    IF r.head = r.tail
    THEN [rb |-> r, ret |-> FALSE, out |-> <<>>]
    ELSE [rb |-> [r EXCEPT !.tail = NextIndex(r.tail, r.size)],
          ret |-> TRUE, out |-> <<r.buffer[r.tail]>>]

\* Plausible slip: peek copied from read together with the tail update.
ring_buffer_peek_Consuming(r) ==
    IF r.head = r.tail
    THEN [rb |-> r, ret |-> FALSE, out |-> <<>>]
    ELSE [rb |-> [r EXCEPT !.tail = NextIndex(r.tail, r.size)],
          ret |-> TRUE, out |-> <<r.buffer[r.tail]>>]

ring_buffer_peek(r) ==
    IF r.head = r.tail
    THEN [rb |-> r, ret |-> FALSE, out |-> <<>>]
    ELSE [rb |-> r, ret |-> TRUE, out |-> <<r.buffer[r.tail]>>]

\* The iterations i = lo .. hi-1 of the for loop of ring_buffer_write_multiple
\* from the loop state st: the ring buffer, `written`, and whether the loop
\* has been left with break.  The state t left by the first half of the
\* iterations is the state the second half starts from.
RECURSIVE WriteRange(_, _, _, _)
WriteRange(st, data, lo, hi) ==
    IF st.broke \/ lo >= hi THEN st
    ELSE IF hi = lo + 1
    THEN LET w == ring_buffer_write(st.rb, data[lo + 1]) IN
         IF ~w.ret
         THEN [st EXCEPT !.broke = TRUE]
         ELSE [rb |-> w.rb, ret |-> U16(st.ret + 1), broke |-> FALSE]
    ELSE CHOOSE x \in {WriteRange(t, data, (lo + hi) \div 2, hi) :
                          t \in {WriteRange(st, data, lo, (lo + hi) \div 2)}} : TRUE

ring_buffer_write_multiple(r, data) ==
    LET st == WriteRange([rb |-> r, ret |-> 0, broke |-> FALSE], data, 0, Len(data))
    IN [rb |-> st.rb, ret |-> st.ret]

\* The iterations i = lo .. hi-1 of the for loop of ring_buffer_read_multiple
\* from the loop state st: the ring buffer, `read_count`, the bytes stored in
\* data[] and whether the loop has been left with break.
RECURSIVE ReadRange(_, _, _)
ReadRange(st, lo, hi) ==
    IF st.broke \/ lo >= hi THEN st
    ELSE IF hi = lo + 1
    THEN LET rd == ring_buffer_read(st.rb) IN
         IF ~rd.ret
         THEN [st EXCEPT !.broke = TRUE]
         ELSE [rb |-> rd.rb, ret |-> U16(st.ret + 1), out |-> st.out \o rd.out,
               broke |-> FALSE]
    ELSE CHOOSE x \in {ReadRange(t, (lo + hi) \div 2, hi) :
                          t \in {ReadRange(st, lo, (lo + hi) \div 2)}} : TRUE

ring_buffer_read_multiple(r, length) ==
    LET st == ReadRange([rb |-> r, ret |-> 0, out |-> <<>>, broke |-> FALSE], 0, length)
    IN [rb |-> st.rb, ret |-> st.ret, out |-> st.out]

\* The value ring_buffer_available returns when its first load of head is h1,
\* its second (the one used in the arithmetic) is h2 and tail is t.
AvailableValue(h1, h2, t, size) ==
    IF h1 >= t THEN U16(h2 - t) ELSE U16(size - t + h2)

ring_buffer_available(r) == AvailableValue(r.head, r.head, r.tail, r.size)

\* rb->size - available - 1, stored in a uint16_t.
FreeSpaceValue(avail, size) == U16(size - avail - 1)

ring_buffer_free_space(r) == FreeSpaceValue(ring_buffer_available(r), r.size)

ring_buffer_is_empty(r) == r.head = r.tail

ring_buffer_is_full(r) == NextIndex(r.head, r.size) = r.tail

ring_buffer_clear(r) == [r EXCEPT !.head = 0, !.tail = 0]


(***************************************************************************)
(* ccd_data_layer.c.  A CCD_Frame_t is modelled as the bytes it occupies   *)
(* in memory (packed, little-endian as on the Cortex-M4 target), byte      *)
(* offset o being element o+1 of the sequence.  The pixel array is         *)
(* modelled with NumPixels elements instead of 3694; the value stamped     *)
(* into and checked in the pixel_count field is the source's 3694.         *)
(***************************************************************************)
\* Number of elements of pixel_data[] and of the ADC buffer in the model.
NumPixels == 2

CCD_PIXEL_COUNT == 3694

FRAME_HEADER_SIZE == 8

FRAME_FOOTER_SIZE == 6

FRAME_PIXEL_SIZE == NumPixels * 2

FRAME_TOTAL_SIZE == FRAME_HEADER_SIZE + FRAME_PIXEL_SIZE + FRAME_FOOTER_SIZE

\* CCD_Frame_Status_t
CCD_FRAME_OK == "CCD_FRAME_OK"
CCD_FRAME_ERROR_INVALID_DATA == "CCD_FRAME_ERROR_INVALID_DATA"
CCD_FRAME_ERROR_SIZE == "CCD_FRAME_ERROR_SIZE"
CCD_FRAME_ERROR_CHECKSUM == "CCD_FRAME_ERROR_CHECKSUM"

\* {'F','R','M','E'} and {'E','N','D','F'}
FRAME_START_MARKER == <<70, 82, 77, 69>>
FRAME_END_MARKER == <<69, 78, 68, 70>>

\* Bitwise exclusive or of two naturals.
RECURSIVE Xor(_, _)
Xor(a, b) ==
    IF a = 0 THEN b
    ELSE IF b = 0 THEN a
    ELSE ((a + b) % 2) + 2 * Xor(a \div 2, b \div 2)

crc16_table == <<
          0,  4129,  8258, 12387, 16516, 20645, 24774, 28903,
      33032, 37161, 41290, 45419, 49548, 53677, 57806, 61935,
       4657,   528, 12915,  8786, 21173, 17044, 29431, 25302,
      37689, 33560, 45947, 41818, 54205, 50076, 62463, 58334,
       9314, 13379,  1056,  5121, 25830, 29895, 17572, 21637,
      42346, 46411, 34088, 38153, 58862, 62927, 50604, 54669,
      13907,  9842,  5649,  1584, 30423, 26358, 22165, 18100,
      46939, 42874, 38681, 34616, 63455, 59390, 55197, 51132,
      18628, 22757, 26758, 30887,  2112,  6241, 10242, 14371,
      51660, 55789, 59790, 63919, 35144, 39273, 43274, 47403,
      23285, 19156, 31415, 27286,  6769,  2640, 14899, 10770,
      56317, 52188, 64447, 60318, 39801, 35672, 47931, 43802,
      27814, 31879, 19684, 23749, 11298, 15363,  3168,  7233,
      60846, 64911, 52716, 56781, 44330, 48395, 36200, 40265,
      32407, 28342, 24277, 20212, 15891, 11826,  7761,  3696,
      65439, 61374, 57309, 53244, 48923, 44858, 40793, 36728,
      37256, 33193, 45514, 41451, 53516, 49453, 61774, 57711,
       4224,   161, 12482,  8419, 20484, 16421, 28742, 24679,
      33721, 37784, 41979, 46042, 49981, 54044, 58239, 62302,
        689,  4752,  8947, 13010, 16949, 21012, 25207, 29270,
      46570, 42443, 38312, 34185, 62830, 58703, 54572, 50445,
      13538,  9411,  5280,  1153, 29798, 25671, 21540, 17413,
      42971, 47098, 34713, 38840, 59231, 63358, 50973, 55100,
       9939, 14066,  1681,  5808, 26199, 30326, 17941, 22068,
      55628, 51565, 63758, 59695, 39368, 35305, 47498, 43435,
      22596, 18533, 30726, 26663,  6336,  2273, 14466, 10403,
      52093, 56156, 60223, 64286, 35833, 39896, 43963, 48026,
      19061, 23124, 27191, 31254,  2801,  6864, 10931, 14994,
      64814, 60687, 56684, 52557, 48554, 44427, 40424, 36297,
      31782, 27655, 23652, 19525, 15522, 11395,  7392,  3265,
      61215, 65342, 53085, 57212, 44955, 49082, 36825, 40952,
      28183, 32310, 20053, 24180, 11923, 16050,  3793,  7920
    >>

\* Plausible slip: the table is indexed with the low byte of the CRC, as in
\* the reflected (LSB-first) variant of the algorithm.
Crc16Step_LowByte(crc, byte) ==
    LET index == U8(Xor(crc % 256, byte)) IN
    U16(Xor(crc * 256, crc16_table[index + 1]))

\* One iteration of the loop of ccd_data_layer_calculate_crc16:
\*   uint8_t index = (crc >> 8) ^ data[i];  crc = (crc << 8) ^ crc16_table[index];
Crc16Step(crc, byte) ==
    LET index == U8(Xor(crc \div 256, byte)) IN
    U16(Xor(crc * 256, crc16_table[index + 1]))

RECURSIVE Crc16Loop(_, _, _, _)
Crc16Loop(crc, data, i, length) ==
    IF i >= length THEN crc
    ELSE Crc16Loop(Crc16Step(crc, data[i + 1]), data, i + 1, length)

\* crc starts at 0xFFFF.
ccd_data_layer_calculate_crc16(data, length) ==
    Crc16Loop(65535, data, 0, length)

\* Little-endian store and load of a uint16_t field.
StoreU16(v) == <<v % 256, v \div 256>>
LoadU16(mem, offset) == mem[offset + 1] + 256 * mem[offset + 2]

\* Byte offsets of the fields of CCD_Frame_t.
OffsetStartMarker == 0
OffsetFrameCounter == 4
OffsetPixelCount == 6
OffsetPixelData == FRAME_HEADER_SIZE
OffsetEndMarker == FRAME_HEADER_SIZE + FRAME_PIXEL_SIZE
OffsetChecksum == FRAME_HEADER_SIZE + FRAME_PIXEL_SIZE + 4

Bytes(mem, offset, n) == SubSeq(mem, offset + 1, offset + n)

\* mem with the bytes bs stored from byte offset `offset` on (memcpy, or a
\* field assignment).
StoreBytes(mem, offset, bs) ==
    [k \in 1..Len(mem) |->
        IF k > offset /\ k <= offset + Len(bs) THEN bs[k - offset] ELSE mem[k]]

PixelData(mem) == [i \in 1..NumPixels |-> LoadU16(mem, OffsetPixelData + 2 * (i - 1))]

RECURSIVE StorePixels(_, _, _)
StorePixels(mem, samples, i) ==
    IF i >= NumPixels THEN mem
    ELSE StorePixels(StoreBytes(mem, OffsetPixelData + 2 * i, StoreU16(samples[i + 1])),
                     samples, i + 1)

\* Plausible slip: sizeof(frame_out) of the pointer (4 on the target) instead
\* of the size of the frame.
ChecksumLength_SizeofPointer == 4 - 2

\* FRAME_TOTAL_SIZE - sizeof(frame->checksum)
ChecksumLength == FRAME_TOTAL_SIZE - 2

\* A pointer argument: NULL, or the memory it points to.
NullPtr == [null |-> TRUE, mem |-> <<>>]
Ptr(mem) == [null |-> FALSE, mem |-> mem]

\* Plausible slip: the checksum is computed before the end marker is stored.
ccd_data_layer_process_readout_CrcBeforeFooter(init, counter, adc_buffer, frame) ==
    IF ~init \/ adc_buffer.null \/ frame.null
    THEN [ret |-> CCD_FRAME_ERROR_INVALID_DATA, frame |-> frame, frame_counter |-> counter]
    ELSE LET m1 == StoreBytes(frame.mem, OffsetStartMarker, FRAME_START_MARKER)
             m2 == StoreBytes(m1, OffsetFrameCounter, StoreU16(counter))
             m3 == StoreBytes(m2, OffsetPixelCount, StoreU16(CCD_PIXEL_COUNT))
             m4 == StorePixels(m3, adc_buffer.mem, 0)
             crc == ccd_data_layer_calculate_crc16(m4, ChecksumLength)
             m5 == StoreBytes(m4, OffsetEndMarker, FRAME_END_MARKER)
             m6 == StoreBytes(m5, OffsetChecksum, StoreU16(crc))
         IN [ret |-> CCD_FRAME_OK, frame |-> Ptr(m6), frame_counter |-> U16(counter + 1)]

\* Plausible slip: the counter is incremented before the frame is stamped.
ccd_data_layer_process_readout_StampAfterIncrement(init, counter, adc_buffer, frame) ==
    IF ~init \/ adc_buffer.null \/ frame.null
    THEN [ret |-> CCD_FRAME_ERROR_INVALID_DATA, frame |-> frame, frame_counter |-> counter]
    ELSE LET m1 == StoreBytes(frame.mem, OffsetStartMarker, FRAME_START_MARKER)
             m2 == StoreBytes(m1, OffsetFrameCounter, StoreU16(U16(counter + 1)))
             m3 == StoreBytes(m2, OffsetPixelCount, StoreU16(CCD_PIXEL_COUNT))
             m4 == StorePixels(m3, adc_buffer.mem, 0)
             m5 == StoreBytes(m4, OffsetEndMarker, FRAME_END_MARKER)
             crc == ccd_data_layer_calculate_crc16(m5, ChecksumLength)
             m6 == StoreBytes(m5, OffsetChecksum, StoreU16(crc))
         IN [ret |-> CCD_FRAME_OK, frame |-> Ptr(m6), frame_counter |-> U16(counter + 1)]

\* Plausible slip: the counter is incremented at the entry of the function,
\* before the arguments are checked.
ccd_data_layer_process_readout_CountFailed(init, counter, adc_buffer, frame) ==
    IF ~init
    THEN [ret |-> CCD_FRAME_ERROR_INVALID_DATA, frame |-> frame, frame_counter |-> counter]
    ELSE IF adc_buffer.null \/ frame.null
    THEN [ret |-> CCD_FRAME_ERROR_INVALID_DATA, frame |-> frame,
          frame_counter |-> U16(counter + 1)]
    ELSE LET m1 == StoreBytes(frame.mem, OffsetStartMarker, FRAME_START_MARKER)
             m2 == StoreBytes(m1, OffsetFrameCounter, StoreU16(counter))
             m3 == StoreBytes(m2, OffsetPixelCount, StoreU16(CCD_PIXEL_COUNT))
             m4 == StorePixels(m3, adc_buffer.mem, 0)
             m5 == StoreBytes(m4, OffsetEndMarker, FRAME_END_MARKER)
             crc == ccd_data_layer_calculate_crc16(m5, ChecksumLength)
             m6 == StoreBytes(m5, OffsetChecksum, StoreU16(crc))
         IN [ret |-> CCD_FRAME_OK, frame |-> Ptr(m6), frame_counter |-> U16(counter + 1)]

\* ccd_data_layer_process_readout(adc_buffer, frame_out) with the values of
\* `initialized` and `frame_counter` at the call; returns the status, the
\* frame memory and frame_counter after the call.
ccd_data_layer_process_readout(init, counter, adc_buffer, frame) ==
    IF ~init
    THEN [ret |-> CCD_FRAME_ERROR_INVALID_DATA, frame |-> frame, frame_counter |-> counter]
    ELSE IF adc_buffer.null \/ frame.null
    THEN [ret |-> CCD_FRAME_ERROR_INVALID_DATA, frame |-> frame, frame_counter |-> counter]
    ELSE LET m1 == StoreBytes(frame.mem, OffsetStartMarker, FRAME_START_MARKER)
             m2 == StoreBytes(m1, OffsetFrameCounter, StoreU16(counter))
             m3 == StoreBytes(m2, OffsetPixelCount, StoreU16(CCD_PIXEL_COUNT))
             m4 == StorePixels(m3, adc_buffer.mem, 0)
             m5 == StoreBytes(m4, OffsetEndMarker, FRAME_END_MARKER)
             crc == ccd_data_layer_calculate_crc16(m5, ChecksumLength)
             m6 == StoreBytes(m5, OffsetChecksum, StoreU16(crc))
         IN [ret |-> CCD_FRAME_OK, frame |-> Ptr(m6), frame_counter |-> U16(counter + 1)]

\* Plausible slip: the pixel count is checked before the markers.
ccd_data_layer_validate_frame_SizeFirst(frame) ==
    IF frame.null THEN CCD_FRAME_ERROR_INVALID_DATA
    ELSE IF LoadU16(frame.mem, OffsetPixelCount) # CCD_PIXEL_COUNT
    THEN CCD_FRAME_ERROR_SIZE
    ELSE IF Bytes(frame.mem, OffsetStartMarker, 4) # FRAME_START_MARKER
    THEN CCD_FRAME_ERROR_INVALID_DATA
    ELSE IF Bytes(frame.mem, OffsetEndMarker, 4) # FRAME_END_MARKER
    THEN CCD_FRAME_ERROR_INVALID_DATA
    ELSE IF ccd_data_layer_calculate_crc16(frame.mem, ChecksumLength)
                # LoadU16(frame.mem, OffsetChecksum)
    THEN CCD_FRAME_ERROR_CHECKSUM
    ELSE CCD_FRAME_OK

ccd_data_layer_validate_frame(frame) ==
    IF frame.null THEN CCD_FRAME_ERROR_INVALID_DATA
    ELSE IF Bytes(frame.mem, OffsetStartMarker, 4) # FRAME_START_MARKER
    THEN CCD_FRAME_ERROR_INVALID_DATA
    ELSE IF Bytes(frame.mem, OffsetEndMarker, 4) # FRAME_END_MARKER
    THEN CCD_FRAME_ERROR_INVALID_DATA
    ELSE IF LoadU16(frame.mem, OffsetPixelCount) # CCD_PIXEL_COUNT
    THEN CCD_FRAME_ERROR_SIZE
    ELSE IF ccd_data_layer_calculate_crc16(frame.mem, ChecksumLength)
                # LoadU16(frame.mem, OffsetChecksum)
    THEN CCD_FRAME_ERROR_CHECKSUM
    ELSE CCD_FRAME_OK

(***************************************************************************)
(* Spec: one byte channel of capacity rb.size used from a single context.  *)
(* Every action is one call of ring_buffer.c, executed without preemption. *)
(***************************************************************************)
TripIdle == [phase |-> "idle", start |-> 0, att |-> <<>>, wr |-> <<>>, rd |-> <<>>]

\* Bookkeeping of a write call that was offered `offered` and accepted its
\* first n bytes, on the channel value r held before the call.  A trip starts
\* with a write to an empty channel and lasts while at most size-1 bytes have
\* been offered in total.
TripWrite(r, offered, n) ==
    LET acc == SubSeq(offered, 1, n) IN
    IF trip.phase = "w" /\ Len(trip.att) + Len(offered) <= r.size - 1
    THEN [trip EXCEPT !.att = @ \o offered, !.wr = @ \o acc]
    ELSE IF r.head = r.tail /\ offered # <<>> /\ Len(offered) <= r.size - 1
    THEN [phase |-> "w", start |-> r.head, att |-> offered, wr |-> acc, rd |-> <<>>]
    ELSE TripIdle

\* Bookkeeping of a read call that returned the bytes `out`.
TripRead(out) ==
    IF trip.phase \in {"w", "r"}
    THEN [trip EXCEPT !.phase = "r", !.rd = @ \o out]
    ELSE trip

ChanInit ==
    /\ \E size \in 2..MaxSize :
          rb = ring_buffer_init([i \in 0..(size - 1) |-> Unwritten], size)
    /\ trip = TripIdle
    /\ peeked = <<>>

\* last.arg holds the call's input bytes; for read it holds the result of the
\* successful peek made since the previous read, if any.
NoCall == [op |-> "none", arg |-> <<>>, ret |-> 0, out |-> <<>>]

Write ==
    \E b \in ByteValues :
        LET w == ring_buffer_write(rb, b) IN
        /\ rb' = w.rb
        /\ last' = [op |-> "write", arg |-> <<b>>, ret |-> w.ret, out |-> <<>>]
        /\ trip' = TripWrite(rb, <<b>>, IF w.ret THEN 1 ELSE 0)
        /\ UNCHANGED <<peeked, isrVars, codecVars, cmdVars, xferVars>>

Read ==
    LET rd == ring_buffer_read(rb) IN
    /\ rb' = rd.rb
    /\ last' = [op |-> "read", arg |-> peeked, ret |-> rd.ret, out |-> rd.out]
    /\ trip' = TripRead(rd.out)
    /\ peeked' = IF rd.ret THEN <<>> ELSE peeked
    /\ UNCHANGED <<isrVars, codecVars, cmdVars, xferVars>>

Peek ==
    LET pk == ring_buffer_peek(rb) IN
    /\ rb' = pk.rb
    /\ last' = [op |-> "peek", arg |-> <<>>, ret |-> pk.ret, out |-> pk.out]
    /\ peeked' = IF pk.ret THEN pk.out ELSE peeked
    /\ UNCHANGED <<trip, isrVars, codecVars, cmdVars, xferVars>>

WriteMultiple ==
    \E data \in SeqsUpTo(ByteValues, rb.size) :
        LET w == ring_buffer_write_multiple(rb, data) IN
        /\ rb' = w.rb
        /\ last' = [op |-> "write_multiple", arg |-> data, ret |-> w.ret, out |-> <<>>]
        /\ trip' = TripWrite(rb, data, w.ret)
        /\ UNCHANGED <<peeked, isrVars, codecVars, cmdVars, xferVars>>

ReadMultiple ==
    \E length \in 0..rb.size :
        LET rd == ring_buffer_read_multiple(rb, length) IN
        /\ rb' = rd.rb
        /\ last' = [op |-> "read_multiple", arg |-> <<length>>, ret |-> rd.ret,
                    out |-> rd.out]
        /\ trip' = TripRead(rd.out)
        /\ peeked' = IF rd.ret > 0 THEN <<>> ELSE peeked
        /\ UNCHANGED <<isrVars, codecVars, cmdVars, xferVars>>

Clear ==
    /\ rb' = ring_buffer_clear(rb)
    /\ last' = [op |-> "clear", arg |-> <<>>, ret |-> 0, out |-> <<>>]
    /\ trip' = TripIdle
    /\ peeked' = <<>>
    /\ UNCHANGED <<isrVars, codecVars, cmdVars, xferVars>>

\* The parts of the firmware a specification does not exercise stay as
\* constructed.
ChanIdle ==
    /\ rb = ring_buffer_init([i \in 0..1 |-> Unwritten], 2)
    /\ trip = TripIdle
    /\ peeked = <<>>

IsrIdle ==
    /\ rx = ring_buffer_init([i \in 0..1 |-> Unwritten], 2)
    /\ stats = [rx_bytes_total |-> 0, tx_bytes_total |-> 0,
                rx_overflow_count |-> 0, tx_overflow_count |-> 0]
    /\ cpc = "idle"
    /\ creg = [call |-> "none", h |-> 0, b |-> 0, n |-> 0, out |-> <<>>]
    /\ accepted = <<>>
    /\ delivered = <<>>
    /\ levels = {}

CodecIdle ==
    /\ initialized = FALSE
    /\ frame_counter = 0
    /\ frame_out = [k \in 1..FRAME_TOTAL_SIZE |-> 0]
    /\ damage = 1..FRAME_TOTAL_SIZE
    /\ built = 0

\* The shared fields of the transport and of the layers above it.
SharedFields ==
    {"rx.head", "rx.tail", "tx.head", "tx.tail", "tx_in_progress",
     "acquisition_state", "frame_counter"}

\* The values the shared fields hold.
FieldValues ==
    [f \in SharedFields |->
        CASE f = "rx.head" -> <<rx.head>>
          [] f = "rx.tail" -> <<rx.tail>>
          [] f = "tx.head" -> <<tx.head>>
          [] f = "tx.tail" -> <<tx.tail>>
          [] f = "tx_in_progress" -> <<tx_in_progress>>
          [] f = "acquisition_state" -> <<acquisition_state>>
          [] f = "frame_counter" -> <<frame_counter>>]

\* This step runs in context ctx ("loop" or "interrupt"): every shared field
\* it changes gets ctx as one of its writers.
RunsIn(ctx) ==
    writers' = [f \in SharedFields |->
                   IF FieldValues'[f] # FieldValues[f]
                   THEN writers[f] \cup {ctx} ELSE writers[f]]

\* usb_transport_init() leaves tx_in_progress false; nothing handed to the
\* device yet.
XferIdle ==
    /\ tx_in_progress = FALSE
    /\ cdc = [in_flight |-> 0]
    /\ writers = [f \in SharedFields |-> {}]
    /\ calls = 0

CmdIdle ==
    /\ tx = ring_buffer_init([i \in 0..1 |-> Unwritten], 2)
    /\ acquisition_state = "ACQ_STATE_IDLE"
    /\ integration_time_us = 20
    /\ command_buffer = <<>>
    /\ tim5 = [running |-> FALSE, arr |-> 0, ccr |-> 0, cnt |-> 0]
    /\ events = <<>>
    /\ line_chars = 0
    /\ recent = <<>>
    /\ sends = 0

Init ==
    /\ ChanInit
    /\ last = NoCall
    /\ IsrIdle
    /\ CodecIdle
    /\ CmdIdle
    /\ XferIdle

Next ==
    \/ Write
    \/ Read
    \/ Peek
    \/ WriteMultiple
    \/ ReadMultiple
    \/ Clear

Spec == Init /\ [][Next]_vars

\* C1: with capacity N >= 2, after any sequence of channel calls executed
\* without preemption, available() + free_space() = N - 1, both values lie
\* in 0..N-1, and head and tail stay in 0..N-1.
C1_FillInvariant ==
    /\ rb.size >= 2
    /\ ring_buffer_available(rb) + ring_buffer_free_space(rb) = rb.size - 1
    /\ ring_buffer_available(rb) \in 0..(rb.size - 1)
    /\ ring_buffer_free_space(rb) \in 0..(rb.size - 1)
    /\ rb.head \in 0..(rb.size - 1)
    /\ rb.tail \in 0..(rb.size - 1)

\* C1 witness: a full channel of the largest capacity whose data wraps around
\* the end of the storage, reached by a multi-byte write.
C1_Witness ==
    /\ rb.size = MaxSize
    /\ rb.head < rb.tail
    /\ ring_buffer_available(rb) = rb.size - 1
    /\ ring_buffer_free_space(rb) = 0
    /\ last.op = "write_multiple"

\* C2: on an empty channel of capacity N, at any head/tail position, writing
\* K <= N-1 bytes succeeds for every byte, and reading K bytes back returns
\* the same bytes in the same order; afterwards available() = 0 and
\* free_space() = N-1.
C2_RoundTrip ==
    /\ trip.phase \in {"w", "r"} => trip.wr = trip.att
    /\ trip.phase = "r" => IsPrefix(trip.rd, trip.att)
    /\ (trip.phase = "r" /\ Len(trip.rd) = Len(trip.att)) =>
          /\ trip.rd = trip.att
          /\ ring_buffer_available(rb) = 0
          /\ ring_buffer_free_space(rb) = rb.size - 1

\* C2 witness: N-1 bytes, not all equal, written from a position where they
\* wrap around the end of the storage, and all read back.
C2_Witness ==
    /\ rb.size = MaxSize
    /\ trip.phase = "r"
    /\ Len(trip.att) = rb.size - 1
    /\ Len(trip.rd) = Len(trip.att)
    /\ trip.start + Len(trip.att) >= rb.size
    /\ trip.att[1] # trip.att[2]

\* C3: write fails exactly when the channel holds N-1 bytes and then changes
\* nothing; read and peek fail exactly when head = tail and then change
\* nothing; a successful peek leaves head and tail unchanged and returns the
\* byte the next read returns.
C3_FailFast ==
    [][ /\ last'.op = "write" =>
            /\ (last'.ret = FALSE) <=> (ring_buffer_available(rb) = rb.size - 1)
            /\ (last'.ret = FALSE) => rb' = rb
        /\ last'.op \in {"read", "peek"} =>
            /\ (last'.ret = FALSE) <=> (rb.head = rb.tail)
            /\ (last'.ret = FALSE) => (rb' = rb /\ last'.out = <<>>)
        /\ (last'.op = "peek" /\ last'.ret = TRUE) =>
            /\ rb'.head = rb.head /\ rb'.tail = rb.tail
            /\ last'.out = ring_buffer_read(rb').out
        /\ (last'.op = "read" /\ last'.ret = TRUE /\ peeked # <<>>) =>
            last'.out = peeked
      ]_vars

\* C3 witness: a read that succeeded and had been announced by a successful
\* peek, on a channel whose data wraps around the end of the storage.
C3_Witness ==
    /\ last.op = "read"
    /\ last.ret = TRUE
    /\ last.arg # <<>>
    /\ last.out = last.arg
    /\ rb.head < rb.tail


(***************************************************************************)
(* SpecIsr: the inbound channel rx_ring_buffer of usb_transport.c.         *)
(*                                                                         *)
(* The producer is usb_transport_rx_callback, run in interrupt context: it *)
(* runs to completion and can start between any two steps of the loop      *)
(* context.  The consumer is the loop context calling ring_buffer_read,    *)
(* ring_buffer_peek, ring_buffer_read_multiple, ring_buffer_available and  *)
(* ring_buffer_free_space on the channel.  head and tail are volatile, so  *)
(* each occurrence of rb->head in the source is a load of its own; one     *)
(* consumer step is one load of head, one load of a storage slot or one    *)
(* store of tail.  tail is written only by the consumer, so its loads are  *)
(* folded into the step that uses them.                                    *)
(***************************************************************************)
\* Longest chunk one rx callback delivers.
MaxChunk == 2

\* Number of rx callbacks explored in one run.
MaxRxCalls == 4

NoRegs == [call |-> "none", h |-> 0, b |-> 0, n |-> 0, out |-> <<>>]

\* The fill level of the channel at this instant.
RxFill == ring_buffer_available(rx)

IsrInit ==
    /\ \E size \in 2..MaxSize :
          rx = ring_buffer_init([i \in 0..(size - 1) |-> Unwritten], size)
    /\ stats = [rx_bytes_total |-> 0, tx_bytes_total |-> 0,
                rx_overflow_count |-> 0, tx_overflow_count |-> 0]
    /\ cpc = "idle"
    /\ creg = NoRegs
    /\ accepted = <<>>
    /\ delivered = <<>>
    /\ levels = {}

\* usb_transport_rx_callback(buffer, length), in interrupt context.
usb_transport_rx_callback ==
    /\ stats.rx_bytes_total + stats.rx_overflow_count < MaxRxCalls
    /\ \E data \in SeqsUpTo(ByteValues, MaxChunk) \ {<<>>} :
          LET w == ring_buffer_write_multiple(rx, data) IN
          /\ rx' = w.rb
          /\ stats' = [stats EXCEPT
                          !.rx_bytes_total = @ + w.ret,
                          !.rx_overflow_count =
                              IF w.ret < Len(data) THEN @ + 1 ELSE @]
          /\ accepted' = accepted \o SubSeq(data, 1, w.ret)
          /\ levels' = IF cpc \in {"av_head1", "av_head2"}
                       THEN levels \cup {ring_buffer_available(w.rb)}
                       ELSE levels
    /\ UNCHANGED <<last, cpc, creg, delivered, chanVars, codecVars, cmdVars, xferVars>>

\* The loop context enters one of the consumer calls.
ConsumerCall ==
    /\ cpc = "idle"
    /\ \/ /\ \E call \in {"read", "peek"} :
                creg' = [NoRegs EXCEPT !.call = call, !.n = 1]
          /\ cpc' = "rd_head"
          /\ levels' = levels
       \/ /\ \E length \in 1..rx.size :
                creg' = [NoRegs EXCEPT !.call = "read_multiple", !.n = length]
          /\ cpc' = "rd_head"
          /\ levels' = levels
       \/ /\ \E call \in {"available", "free_space"} :
                creg' = [NoRegs EXCEPT !.call = call]
          /\ cpc' = "av_head1"
          /\ levels' = {RxFill}
    /\ UNCHANGED <<last, rx, stats, accepted, delivered, chanVars, codecVars, cmdVars, xferVars>>

\* The consumer call returns to the loop.
Return(ret, out) ==
    /\ last' = [op |-> creg.call, arg |-> <<>>, ret |-> ret, out |-> out,
                levels |-> levels]
    /\ cpc' = "idle"
    /\ creg' = NoRegs
    /\ levels' = {}

\* ring_buffer_read / ring_buffer_peek: `if (rb->head == rb->tail)`.
RdLoadHead ==
    /\ cpc = "rd_head"
    /\ IF rx.head = rx.tail
       THEN IF creg.call = "read_multiple"
            THEN Return(Len(creg.out), creg.out)
            ELSE Return(FALSE, <<>>)
       ELSE /\ cpc' = "rd_slot"
            /\ creg' = [creg EXCEPT !.h = rx.head]
            /\ UNCHANGED <<last, levels>>
    /\ UNCHANGED <<rx, stats, accepted, delivered, chanVars, codecVars, cmdVars, xferVars>>

\* ring_buffer_read / ring_buffer_peek: `*data = rb->buffer[rb->tail]`.
RdLoadSlot ==
    /\ cpc = "rd_slot"
    /\ IF creg.call = "peek"
       THEN Return(TRUE, <<rx.buffer[rx.tail]>>)
       ELSE /\ cpc' = "rd_tail"
            /\ creg' = [creg EXCEPT !.b = rx.buffer[rx.tail]]
            /\ UNCHANGED <<last, levels>>
    /\ UNCHANGED <<rx, stats, accepted, delivered, chanVars, codecVars, cmdVars, xferVars>>

\* ring_buffer_read: `rb->tail = (rb->tail + 1) % rb->size`, and the return
\* to ring_buffer_read_multiple's loop.
RdStoreTail ==
    /\ cpc = "rd_tail"
    /\ rx' = [rx EXCEPT !.tail = NextIndex(rx.tail, rx.size)]
    /\ delivered' = Append(delivered, creg.b)
    /\ IF creg.call = "read"
       THEN Return(TRUE, <<creg.b>>)
       ELSE IF creg.n = 1
       THEN Return(Len(creg.out) + 1, Append(creg.out, creg.b))
       ELSE /\ cpc' = "rd_head"
            /\ creg' = [creg EXCEPT !.n = @ - 1, !.out = Append(@, creg.b)]
            /\ UNCHANGED <<last, levels>>
    /\ UNCHANGED <<stats, accepted, chanVars, codecVars, cmdVars, xferVars>>

\* ring_buffer_available: `if (rb->head >= rb->tail)`, the first load of head.
AvLoadHead1 ==
    /\ cpc = "av_head1"
    /\ cpc' = "av_head2"
    /\ creg' = [creg EXCEPT !.h = rx.head]
    /\ UNCHANGED <<last, levels, rx, stats, accepted, delivered, chanVars, codecVars, cmdVars, xferVars>>

\* ring_buffer_available: `return rb->head - rb->tail` or
\* `return rb->size - rb->tail + rb->head`, the second load of head; for
\* ring_buffer_free_space the subtraction that follows.
AvLoadHead2 ==
    /\ cpc = "av_head2"
    /\ LET avail == AvailableValue(creg.h, rx.head, rx.tail, rx.size) IN
       IF creg.call = "available"
       THEN Return(avail, <<>>)
       ELSE Return(FreeSpaceValue(avail, rx.size), <<>>)
    /\ UNCHANGED <<rx, stats, accepted, delivered, chanVars, codecVars, cmdVars, xferVars>>

InitIsr ==
    /\ IsrInit
    /\ last = NoCall
    /\ ChanIdle
    /\ CodecIdle
    /\ CmdIdle
    /\ XferIdle

NextIsr ==
    \/ usb_transport_rx_callback
    \/ ConsumerCall
    \/ RdLoadHead
    \/ RdLoadSlot
    \/ RdStoreTail
    \/ AvLoadHead1
    \/ AvLoadHead2

SpecIsr == InitIsr /\ [][NextIsr]_vars

\* C4: with the rx callback preempting the consumer between any two of its
\* memory accesses, the bytes returned by successful reads are a prefix of
\* the bytes accepted by the writes (none lost, duplicated or reordered, no
\* unwritten slot returned); a peek returns the next byte to be delivered.
C4_DeliveredPrefix ==
    /\ IsPrefix(delivered, accepted)
    /\ \A i \in 1..Len(delivered) : delivered[i] # Unwritten
    /\ (cpc = "idle" /\ last.op = "peek" /\ last.ret = TRUE) =>
          /\ Len(delivered) < Len(accepted)
          /\ last.out = <<accepted[Len(delivered) + 1]>>
    /\ (cpc = "idle" /\ last.op = "read") =>
          /\ last.ret = TRUE => (delivered # <<>> /\ last.out = <<delivered[Len(delivered)]>>)
          /\ last.ret = FALSE => last.out = <<>>
    /\ (cpc = "idle" /\ last.op = "read_multiple") =>
          /\ last.ret = Len(last.out)
          /\ last.ret <= Len(delivered)
          /\ SubSeq(delivered, Len(delivered) - last.ret + 1, Len(delivered)) = last.out

\* C4 witness: a multi-byte read whose first byte was in the channel before
\* the call and whose last byte was written by an rx callback that preempted
\* the call, with the data wrapping around the end of the storage.
C4_Witness ==
    /\ cpc = "idle"
    /\ last.op = "read_multiple"
    /\ last.ret = rx.size
    /\ delivered = accepted
    /\ Len(delivered) > rx.size
    /\ rx.size = MaxSize
    /\ \E i \in 1..Len(delivered) : delivered[i] # delivered[1]

\* C5: available() and free_space() called in the loop context while the
\* rx callback may run between their loads of head and tail never return
\* more than capacity-1, and the result describes a fill level the channel
\* had at some instant of the call.
C5_CountsWithinCapacity ==
    /\ last.op = "available" =>
          /\ last.ret <= rx.size - 1
          /\ last.ret \in last.levels
    /\ last.op = "free_space" =>
          /\ last.ret <= rx.size - 1
          /\ (rx.size - 1 - last.ret) \in last.levels


(***************************************************************************)
(* SpecCodec: the frame codec.  Every action is one call of                *)
(* ccd_data_layer.c on the caller's frame memory frame_out.                *)
(*                                                                         *)
(* SpecValidate: a frame built by process_readout is altered by the        *)
(* environment (CorruptByte, CorruptFields) and handed to validate_frame.  *)
(*                                                                         *)
(* SpecCrc: ccd_data_layer_calculate_crc16 applied to byte sequences.      *)
(***************************************************************************)
\* Successful readouts explored in one run.
MaxFrames == 2

\* Sample values the ADC buffer is filled with (any uint16_t is allowed).
SampleValues == {2748, 65535}

AdcBuffers == [1..NumPixels -> SampleValues]

\* A run starts at power-up, or after this many frames have been built.
ResumeCounters == {65535}

\* Bit patterns by which CorruptByte changes a byte: every change of value.
FlipMasks == 1..255

\* Counter values stamped into the frames handed to SpecValidate.
StampCounters == {0, 65535}

ZeroFrame == [k \in 1..FRAME_TOTAL_SIZE |-> 0]

\* 1-based positions of the bytes of the two markers and of pixel_count.
MarkerPositions ==
    (OffsetStartMarker + 1)..(OffsetStartMarker + 4)
        \cup (OffsetEndMarker + 1)..(OffsetEndMarker + 4)
PixelCountPositions == {OffsetPixelCount + 1, OffsetPixelCount + 2}

\* One byte of each field other than frame_counter, for CorruptFields.
ProbePositions ==
    {OffsetStartMarker + 1, OffsetPixelCount + 1, OffsetPixelData + 1,
     OffsetEndMarker + 4, OffsetChecksum + 1}

CodecInit ==
    \/ /\ initialized = FALSE
       /\ frame_counter = 0
       /\ frame_out = ZeroFrame
       /\ damage = 1..FRAME_TOTAL_SIZE
       /\ built = 0
    \/ \E c \in ResumeCounters, adc \in AdcBuffers :
       /\ initialized = TRUE
       /\ frame_counter = c
       /\ frame_out = ccd_data_layer_process_readout(
                          TRUE, c - 1, Ptr(adc), Ptr(ZeroFrame)).frame.mem
       /\ damage = {}
       /\ built = 0

\* ccd_data_layer_init()
DataLayerInit ==
    /\ frame_counter' = 0
    /\ initialized' = TRUE
    /\ last' = [op |-> "init", ret |-> CCD_FRAME_OK]
    /\ UNCHANGED <<frame_out, damage, built, chanVars, isrVars, cmdVars, xferVars>>

\* ccd_data_layer_process_readout(adc_buffer, frame_out)
ProcessReadout ==
    /\ built < MaxFrames
    /\ \E adc \in {NullPtr} \cup {Ptr(a) : a \in AdcBuffers},
          frame \in {NullPtr, Ptr(frame_out)} :
          LET r == ccd_data_layer_process_readout(initialized, frame_counter, adc, frame)
              ok == r.ret = CCD_FRAME_OK
          IN /\ frame_out' = IF frame.null THEN frame_out ELSE r.frame.mem
             /\ frame_counter' = r.frame_counter
             /\ damage' = IF ok THEN {} ELSE damage
             /\ built' = IF ok THEN built + 1 ELSE built
             /\ last' = [op |-> "process_readout", ret |-> r.ret, adc |-> adc,
                         frame_null |-> frame.null, counter |-> frame_counter]
    /\ UNCHANGED <<initialized, chanVars, isrVars, cmdVars, xferVars>>

\* ccd_data_layer_get_frame_count()
GetFrameCount ==
    /\ last' = [op |-> "get_frame_count", ret |-> frame_counter]
    /\ UNCHANGED <<codecVars, chanVars, isrVars, cmdVars, xferVars>>

\* ccd_data_layer_reset_counter()
ResetCounter ==
    /\ frame_counter' = 0
    /\ last' = [op |-> "reset_counter", ret |-> 0]
    /\ UNCHANGED <<initialized, frame_out, damage, built, chanVars, isrVars, cmdVars, xferVars>>

\* ccd_data_layer_validate_frame(frame)
ValidateFrame ==
    /\ \E frame \in {NullPtr, Ptr(frame_out)} :
          last' = [op |-> "validate_frame", frame_null |-> frame.null,
                   ret |-> ccd_data_layer_validate_frame(frame)]
    /\ UNCHANGED <<codecVars, chanVars, isrVars, cmdVars, xferVars>>

\* One byte of an intact built frame takes another value.
CorruptByte ==
    /\ damage = {}
    /\ \E pos \in 1..FRAME_TOTAL_SIZE, mask \in FlipMasks :
          /\ frame_out' = [frame_out EXCEPT ![pos] = Xor(@, mask)]
          /\ damage' = {pos}
    /\ last' = [op |-> "corrupt", ret |-> 0]
    /\ UNCHANGED <<initialized, frame_counter, built, chanVars, isrVars, cmdVars, xferVars>>

\* Bytes of several fields of an intact built frame are inverted at once.
CorruptFields ==
    /\ damage = {}
    /\ \E D \in SUBSET ProbePositions :
          /\ Cardinality(D) >= 2
          /\ frame_out' = [k \in 1..FRAME_TOTAL_SIZE |->
                              IF k \in D THEN Xor(frame_out[k], 255) ELSE frame_out[k]]
          /\ damage' = D
    /\ last' = [op |-> "corrupt", ret |-> 0]
    /\ UNCHANGED <<initialized, frame_counter, built, chanVars, isrVars, cmdVars, xferVars>>

InitCodec ==
    /\ CodecInit
    /\ last = NoCall
    /\ ChanIdle
    /\ IsrIdle
    /\ CmdIdle
    /\ XferIdle

NextCodec ==
    \/ DataLayerInit
    \/ ProcessReadout
    \/ GetFrameCount
    \/ ResetCounter
    \/ ValidateFrame

SpecCodec == InitCodec /\ [][NextCodec]_vars

\* The state after a frame stamped c has been built from some ADC buffer.
InitValidate ==
    /\ \E c \in StampCounters, adc \in AdcBuffers :
          LET r == ccd_data_layer_process_readout(TRUE, c, Ptr(adc), Ptr(ZeroFrame)) IN
          /\ initialized = TRUE
          /\ frame_counter = r.frame_counter
          /\ frame_out = r.frame.mem
          /\ damage = {}
          /\ built = 1
    /\ last = [op |-> "process_readout", ret |-> CCD_FRAME_OK]
    /\ ChanIdle
    /\ IsrIdle
    /\ CmdIdle
    /\ XferIdle

NextValidate ==
    \/ CorruptByte
    \/ CorruptFields
    \/ ValidateFrame

SpecValidate == InitValidate /\ [][NextValidate]_vars

\* Longest byte sequence, over CrcBytes, handed to calculate_crc16; every
\* one-byte sequence is handed to it as well.
MaxCrcLen == 3

CrcBytes == {0, 49, 128, 255}

CrcInputs == SeqsUpTo(CrcBytes, MaxCrcLen) \cup {<<b>> : b \in 0..255}

\* ccd_data_layer_calculate_crc16(data, length)
CalculateCrc16 ==
    /\ \E data \in CrcInputs :
          last' = [op |-> "calculate_crc16", arg |-> data,
                   ret |-> ccd_data_layer_calculate_crc16(data, Len(data))]
    /\ UNCHANGED <<codecVars, chanVars, isrVars, cmdVars, xferVars>>

InitCrc ==
    /\ CodecIdle
    /\ last = NoCall
    /\ ChanIdle
    /\ IsrIdle
    /\ CmdIdle
    /\ XferIdle

NextCrc == CalculateCrc16

SpecCrc == InitCrc /\ [][NextCrc]_vars

(***************************************************************************)
(* Frame codec properties.                                                 *)
(***************************************************************************)
\* C6: every successful process_readout stamps the frame with the counter
\* value held before the call and then increases the counter by exactly 1
\* modulo 65536; init and reset_counter set the counter to 0; no other call
\* (a failed readout, get_frame_count, validate_frame) changes it.
C6_CounterStep ==
    [][ /\ (last'.op = "process_readout" /\ last'.ret = CCD_FRAME_OK) =>
              /\ frame_counter' = (frame_counter + 1) % 65536
              /\ LoadU16(frame_out', OffsetFrameCounter) = frame_counter
        /\ (last'.op \in {"init", "reset_counter"}) => frame_counter' = 0
        /\ ~(\/ last'.op = "process_readout" /\ last'.ret = CCD_FRAME_OK
             \/ last'.op \in {"init", "reset_counter"}) =>
              frame_counter' = frame_counter ]_vars

\* A successful readout made with the counter at 65535: the frame carries
\* 65535 and the counter has wrapped to 0.
C6_Witness ==
    /\ last.op = "process_readout"
    /\ last.ret = CCD_FRAME_OK
    /\ last.counter = 65535
    /\ LoadU16(frame_out, OffsetFrameCounter) = 65535
    /\ frame_counter = 0

\* C7: the frame written by a successful process_readout validates as
\* CCD_FRAME_OK, its pixel_data equals the input samples element for
\* element and its pixel_count field is 3694; a validate_frame call on a
\* frame left as process_readout wrote it returns CCD_FRAME_OK.
C7_BuildThenValidate ==
    /\ (last.op = "process_readout" /\ last.ret = CCD_FRAME_OK) =>
          /\ ccd_data_layer_validate_frame(Ptr(frame_out)) = CCD_FRAME_OK
          /\ PixelData(frame_out) = last.adc.mem
          /\ LoadU16(frame_out, OffsetPixelCount) = 3694
    /\ (last.op = "validate_frame" /\ ~last.frame_null /\ damage = {}) =>
          last.ret = CCD_FRAME_OK

\* validate_frame has returned CCD_FRAME_OK on a frame built in this run
\* with the counter at 65535.
C7_Witness ==
    /\ last.op = "validate_frame"
    /\ ~last.frame_null
    /\ last.ret = CCD_FRAME_OK
    /\ built >= 1
    /\ damage = {}
    /\ LoadU16(frame_out, OffsetFrameCounter) = 65535
    /\ \E i \in 1..NumPixels : PixelData(frame_out)[i] = 2748

\* C8: validate_frame reports the first failing check in the order absent
\* frame -> INVALID_DATA, a marker altered -> INVALID_DATA, pixel_count
\* altered -> SIZE, anything else altered -> CHECKSUM, nothing altered -> OK,
\* whatever else is altered along with it.
C8_FirstFailingCheck ==
    last.op = "validate_frame" =>
        last.ret = IF last.frame_null THEN CCD_FRAME_ERROR_INVALID_DATA
                   ELSE IF damage \cap MarkerPositions # {}
                   THEN CCD_FRAME_ERROR_INVALID_DATA
                   ELSE IF damage \cap PixelCountPositions # {}
                   THEN CCD_FRAME_ERROR_SIZE
                   ELSE IF damage # {} THEN CCD_FRAME_ERROR_CHECKSUM
                   ELSE CCD_FRAME_OK

\* A frame whose start marker, pixel count and checksum are all altered has
\* been validated.
C8_Witness ==
    /\ last.op = "validate_frame"
    /\ ~last.frame_null
    /\ {OffsetStartMarker + 1, OffsetPixelCount + 1, OffsetChecksum + 1} \subseteq damage
    /\ last.ret = CCD_FRAME_ERROR_INVALID_DATA

\* C9 as stated: on a built frame with the value of one byte changed,
\* validate_frame returns INVALID_DATA if the byte is one of the 8 marker
\* bytes and CHECKSUM for every other byte.
C9_AnyNonMarkerByteIsChecksumError ==
    (last.op = "validate_frame" /\ ~last.frame_null /\ Cardinality(damage) = 1) =>
        last.ret = IF damage \subseteq MarkerPositions
                   THEN CCD_FRAME_ERROR_INVALID_DATA
                   ELSE CCD_FRAME_ERROR_CHECKSUM

\* C9 amended: on a built frame with the value of one byte changed,
\* validate_frame returns INVALID_DATA if the byte is one of the 8 marker
\* bytes, SIZE if it is one of the 2 pixel_count bytes, and CHECKSUM for
\* every other byte (frame_counter, pixel_data, checksum).
C9_SingleByteChange ==
    (last.op = "validate_frame" /\ ~last.frame_null /\ Cardinality(damage) = 1) =>
        last.ret = IF damage \subseteq MarkerPositions
                   THEN CCD_FRAME_ERROR_INVALID_DATA
                   ELSE IF damage \subseteq PixelCountPositions
                   THEN CCD_FRAME_ERROR_SIZE
                   ELSE CCD_FRAME_ERROR_CHECKSUM

\* A frame with one changed pixel_data byte has been validated and refused
\* with CHECKSUM.
C9_Witness ==
    /\ last.op = "validate_frame"
    /\ ~last.frame_null
    /\ damage = {OffsetPixelData + 2}
    /\ last.ret = CCD_FRAME_ERROR_CHECKSUM

(***************************************************************************)
(* The bit-by-bit CRC-16-CCITT reference: polynomial 0x1021, initial value *)
(* 0xFFFF, most significant bit first, no reflection, no final xor.        *)
(***************************************************************************)
RECURSIVE RefShift(_, _)
RefShift(crc, n) ==
    IF n = 0 THEN crc
    ELSE RefShift(IF crc >= 32768
                  THEN Xor((crc * 2) % 65536, 4129)
                  ELSE (crc * 2) % 65536,
                  n - 1)

RefByte(crc, byte) == RefShift(Xor(crc, byte * 256), 8)

RECURSIVE RefCrc(_, _)
RefCrc(crc, data) ==
    IF data = <<>> THEN crc ELSE RefCrc(RefByte(crc, Head(data)), Tail(data))

\* C10: calculate_crc16 equals the bit-by-bit reference started at 0xFFFF on
\* every byte sequence, and entry i of crc16_table is the reference
\* remainder of the single byte i.
C10_TableMatchesReference ==
    last.op = "calculate_crc16" =>
        /\ last.ret = RefCrc(65535, last.arg)
        /\ Len(last.arg) = 1 =>
              crc16_table[last.arg[1] + 1] = RefByte(0, last.arg[1])

\* The CRC of a sequence of three bytes starting with '1' has been computed.
C10_Witness ==
    /\ last.op = "calculate_crc16"
    /\ Len(last.arg) = 3
    /\ last.arg[1] = 49
    /\ last.ret # 65535


(***************************************************************************)
(* command_layer.c (the revision that reprograms TIM5) as functions of the *)
(* state it works on.  Text is a sequence of character codes.  The record  *)
(* s holds rx, tx and stats of usb_transport.c, the statics of             *)
(* command_layer.c, the TIM5 registers, and the bookkeeping of the event   *)
(* in progress: the texts handed to send_response (replies), the number of *)
(* bytes of each that the outbound channel accepted (written) and the      *)
(* timer operations performed (tim_ops).                                   *)
(***************************************************************************)
USB_RX_BUFFER_SIZE == 256
USB_TX_BUFFER_SIZE == 512

CMD_BUFFER_SIZE == 64

\* "TCD1304_READY\n"
STR_READY == <<84, 67, 68, 49, 51, 48, 52, 95, 82, 69, 65, 68, 89, 10>>
\* "START"
STR_START == <<83, 84, 65, 82, 84>>
\* "STOP"
STR_STOP == <<83, 84, 79, 80>>
\* "STATUS"
STR_STATUS == <<83, 84, 65, 84, 85, 83>>
\* "SET_INT_TIME:"
STR_SET_INT_TIME == <<83, 69, 84, 95, 73, 78, 84, 95, 84, 73, 77, 69, 58>>
\* "OK:STARTED\n"
STR_OK_STARTED == <<79, 75, 58, 83, 84, 65, 82, 84, 69, 68, 10>>
\* "OK:STOPPED\n"
STR_OK_STOPPED == <<79, 75, 58, 83, 84, 79, 80, 80, 69, 68, 10>>
\* "ERROR:MUST_STOP_FIRST\n"
STR_MUST_STOP_FIRST == <<69, 82, 82, 79, 82, 58, 77, 85, 83, 84, 95, 83, 84, 79, 80, 95, 70, 73, 82, 83, 84, 10>>
\* "ERROR:RANGE_10_TO_100000\n"
STR_RANGE == <<69, 82, 82, 79, 82, 58, 82, 65, 78, 71, 69, 95, 49, 48, 95, 84, 79, 95, 49, 48, 48, 48, 48, 48, 10>>
\* "OK:INT_TIME_SET\n"
STR_OK_INT_TIME_SET == <<79, 75, 58, 73, 78, 84, 95, 84, 73, 77, 69, 95, 83, 69, 84, 10>>
\* "OK:INT_TIME_SET:"
STR_OK_INT_TIME_SET_N == <<79, 75, 58, 73, 78, 84, 95, 84, 73, 77, 69, 95, 83, 69, 84, 58>>
\* "ERROR:NOT_IMPLEMENTED\n"
STR_NOT_IMPLEMENTED == <<69, 82, 82, 79, 82, 58, 78, 79, 84, 95, 73, 77, 80, 76, 69, 77, 69, 78, 84, 69, 68, 10>>
\* "ERROR:INVALID_PARAM\n"
STR_INVALID_PARAM == <<69, 82, 82, 79, 82, 58, 73, 78, 86, 65, 76, 73, 68, 95, 80, 65, 82, 65, 77, 10>>
\* "ERROR:UNKNOWN_CMD:"
STR_UNKNOWN_CMD == <<69, 82, 82, 79, 82, 58, 85, 78, 75, 78, 79, 87, 78, 95, 67, 77, 68, 58>>
\* "ERROR:CMD_TOO_LONG\n"
STR_CMD_TOO_LONG == <<69, 82, 82, 79, 82, 58, 67, 77, 68, 95, 84, 79, 79, 95, 76, 79, 78, 71, 10>>
\* "STATUS:"
STR_STATUS_IS == <<83, 84, 65, 84, 85, 83, 58>>
\* "IDLE"
STR_IDLE == <<73, 68, 76, 69>>
\* "RUNNING"
STR_RUNNING == <<82, 85, 78, 78, 73, 78, 71>>
\* ",INT_TIME:"
STR_INT_TIME == <<44, 73, 78, 84, 95, 84, 73, 77, 69, 58>>
\* "\n"
STR_LF == <<10>>

\* '\n' and '\r'
Terminators == {10, 13}

\* The characters trimmed from the end of a command: ' ' and '\r'.
TrimChars == {32, 13}

\* isspace(): ' ', '\t', '\n', '\v', '\f', '\r'
SpaceChars == {32, 9, 10, 11, 12, 13}

Min(a, b) == IF a <= b THEN a ELSE b

\* The C string that starts at the beginning of buf: it ends before the
\* first NUL character.
CStr(buf) ==
    LET nuls == {k \in 1..Len(buf) : buf[k] = 0} IN
    IF nuls = {} THEN buf
    ELSE SubSeq(buf, 1, (CHOOSE k \in nuls : \A j \in nuls : k <= j) - 1)

\* snprintf(response, size, ...): at most size-1 characters of the text.
Snprintf(size, text) == SubSeq(text, 1, Min(Len(text), size - 1))

\* "%lu"
RECURSIVE FormatLu(_)
FormatLu(n) ==
    IF n < 10 THEN <<48 + n>> ELSE FormatLu(n \div 10) \o <<48 + (n % 10)>>

RECURSIVE SkipSpace(_)
SkipSpace(str) ==
    IF str # <<>> /\ Head(str) \in SpaceChars THEN SkipSpace(Tail(str)) ELSE str

\* A 32-bit value is held as the int with the same bit pattern (a uint32_t
\* of 2^31 or more is the negative int 2^32 below it); ULess is < on
\* uint32_t.
ULess(a, b) == IF (a < 0) = (b < 0) THEN a < b ELSE b < 0

INT_MAX == 2147483647
INT_MIN == (-2147483647) - 1

\* The int with the bit pattern of the 16-bit halves hi and lo.
FromHalves(hi, lo) ==
    IF hi < 32768 THEN hi * 65536 + lo ELSE (hi - 65536) * 65536 + lo

\* The value M of the leading decimal digits of str, accumulated on the
\* halves hi:lo of M mod 2^32, with big = (M >= 2^32).
RECURSIVE DigitsValue(_, _, _, _)
DigitsValue(hi, lo, big, str) ==
    IF str # <<>> /\ Head(str) \in 48..57
    THEN LET l == lo * 10 + (Head(str) - 48)
             h == hi * 10 + (l \div 65536)
         IN DigitsValue(h % 65536, l % 65536, big \/ h >= 65536, Tail(str))
    ELSE [hi |-> hi, lo |-> lo, big |-> big]

\* What atoi() may return for a value that int cannot represent (undefined
\* behaviour in C): the nearest int, or the value reduced modulo 2^32.
AtoiOverflow == {"saturate", "wrap"}

\* atoi(str): white space, an optional sign, decimal digits.
atoi(str, overflow) ==
    LET t == SkipSpace(str)
        neg == t # <<>> /\ Head(t) = 45
        signed == t # <<>> /\ Head(t) \in {43, 45}
        m == DigitsValue(0, 0, FALSE, IF signed THEN Tail(t) ELSE t)
        pattern == FromHalves(m.hi, m.lo)
        fits == ~m.big /\ (m.hi < 32768 \/ (neg /\ m.hi = 32768 /\ m.lo = 0))
        negated == IF pattern = INT_MIN THEN INT_MIN ELSE 0 - pattern
    IN IF fits THEN (IF neg THEN negated ELSE pattern)
       ELSE IF overflow = "saturate" THEN (IF neg THEN INT_MIN ELSE INT_MAX)
       ELSE (IF neg THEN negated ELSE pattern)

\* usb_transport_write_byte(data)
usb_transport_write_byte(t, data) ==
    LET w == ring_buffer_write(t.tx, data) IN
    [t |-> [t EXCEPT !.tx = w.rb,
                     !.stats = IF w.ret
                               THEN [@ EXCEPT !.tx_bytes_total = @ + 1]
                               ELSE [@ EXCEPT !.tx_overflow_count = @ + 1]],
     ret |-> w.ret]

\* Plausible slip: the overflow test is `written <= length`.
usb_transport_write_AlwaysOverflow(t, buffer) ==
    LET w == ring_buffer_write_multiple(t.tx, buffer) IN
    [t |-> [t EXCEPT !.tx = w.rb,
                     !.stats = [@ EXCEPT !.tx_bytes_total = @ + w.ret,
                                         !.tx_overflow_count = @ + 1]],
     ret |-> w.ret]

\* usb_transport_write(buffer, length)
usb_transport_write(t, buffer) ==
    LET w == ring_buffer_write_multiple(t.tx, buffer) IN
    [t |-> [t EXCEPT !.tx = w.rb,
                     !.stats = [@ EXCEPT !.tx_bytes_total = @ + w.ret,
                                         !.tx_overflow_count =
                                             IF w.ret < Len(buffer) THEN @ + 1 ELSE @]],
     ret |-> w.ret]

\* usb_transport_write_string(str): strlen(str) bytes of str.
usb_transport_write_string(t, str) == usb_transport_write(t, CStr(str))

\* send_response(response): usb_transport_write_string(response).
send_response(s, response) ==
    LET w == usb_transport_write_string(s, response) IN
    [w.t EXCEPT !.replies = Append(@, response),
                !.written = Append(@, w.ret)]

\* command_layer_is_acquiring()
command_layer_is_acquiring == acquisition_state = "ACQ_STATE_RUNNING"

\* Plausible slip: START accepted only while idle.
command_handle_start_OnlyFromIdle(s) ==
    IF s.acquisition_state = "ACQ_STATE_RUNNING"
    THEN send_response(s, STR_MUST_STOP_FIRST)
    ELSE send_response([s EXCEPT !.acquisition_state = "ACQ_STATE_RUNNING"], STR_OK_STARTED)

command_handle_start(s) ==
    send_response([s EXCEPT !.acquisition_state = "ACQ_STATE_RUNNING"], STR_OK_STARTED)

command_handle_stop(s) ==
    send_response([s EXCEPT !.acquisition_state = "ACQ_STATE_IDLE"], STR_OK_STOPPED)

\* Plausible slip: the state name is chosen with the test inverted.
command_handle_get_status_Inverted(s) ==
    LET state_str == IF s.acquisition_state = "ACQ_STATE_RUNNING"
                     THEN STR_IDLE ELSE STR_RUNNING
    IN send_response(s, Snprintf(128, STR_STATUS_IS \o state_str \o STR_INT_TIME
                                        \o FormatLu(s.integration_time_us) \o STR_LF))

command_handle_get_status(s) ==
    LET state_str == IF s.acquisition_state = "ACQ_STATE_RUNNING"
                     THEN STR_RUNNING ELSE STR_IDLE
    IN send_response(s, Snprintf(128, STR_STATUS_IS \o state_str \o STR_INT_TIME
                                        \o FormatLu(s.integration_time_us) \o STR_LF))

\* The HAL operations on TIM5 channel 3.
HAL_TIM_PWM_Stop(s) ==
    [s EXCEPT !.tim5.running = FALSE, !.tim_ops = Append(@, <<"PWM_Stop">>)]
HAL_TIM_SET_AUTORELOAD(s, v) ==
    [s EXCEPT !.tim5.arr = v, !.tim_ops = Append(@, <<"SET_AUTORELOAD", v>>)]
HAL_TIM_SET_COMPARE(s, v) ==
    [s EXCEPT !.tim5.ccr = v, !.tim_ops = Append(@, <<"SET_COMPARE", v>>)]
HAL_TIM_SET_COUNTER(s, v) ==
    [s EXCEPT !.tim5.cnt = v, !.tim_ops = Append(@, <<"SET_COUNTER", v>>)]
HAL_TIM_PWM_Start(s) ==
    [s EXCEPT !.tim5.running = TRUE, !.tim_ops = Append(@, <<"PWM_Start">>)]

\* Plausible slip: the period is given in microseconds, not in timer clocks.
ArrValue_Microseconds(microseconds) == microseconds - 1

\* The registers TIM5 is given for an integration time.
ArrValue(microseconds) == (84 * microseconds) - 1
CcrValue == 335

\* Plausible slip: the value is stored before it is validated.
command_handle_set_integration_time_StoreFirst(s, microseconds) ==
    IF s.acquisition_state = "ACQ_STATE_RUNNING"
    THEN [status |-> "CMD_ERROR_BUSY", s |-> send_response(s, STR_MUST_STOP_FIRST)]
    ELSE IF ULess(microseconds, 10) \/ ULess(100000, microseconds)
    THEN [status |-> "CMD_ERROR_INVALID_PARAM",
          s |-> send_response([s EXCEPT !.integration_time_us = microseconds], STR_RANGE)]
    ELSE [status |-> "CMD_OK",
          s |-> send_response(
                    HAL_TIM_PWM_Start(HAL_TIM_SET_COUNTER(HAL_TIM_SET_COMPARE(
                        HAL_TIM_SET_AUTORELOAD(HAL_TIM_PWM_Stop(
                            [s EXCEPT !.integration_time_us = microseconds]),
                            ArrValue(microseconds)), CcrValue), 0)),
                    Snprintf(64, STR_OK_INT_TIME_SET_N \o FormatLu(microseconds) \o STR_LF))]

\* Plausible slip: the registers are written before the timer is stopped.
command_handle_set_integration_time_WriteRunning(s, microseconds) ==
    IF s.acquisition_state = "ACQ_STATE_RUNNING"
    THEN [status |-> "CMD_ERROR_BUSY", s |-> send_response(s, STR_MUST_STOP_FIRST)]
    ELSE IF ULess(microseconds, 10) \/ ULess(100000, microseconds)
    THEN [status |-> "CMD_ERROR_INVALID_PARAM", s |-> send_response(s, STR_RANGE)]
    ELSE [status |-> "CMD_OK",
          s |-> send_response(
                    HAL_TIM_PWM_Start(HAL_TIM_SET_COUNTER(HAL_TIM_PWM_Stop(
                        HAL_TIM_SET_COMPARE(HAL_TIM_SET_AUTORELOAD(
                            [s EXCEPT !.integration_time_us = microseconds],
                            ArrValue(microseconds)), CcrValue)), 0)),
                    Snprintf(64, STR_OK_INT_TIME_SET_N \o FormatLu(microseconds) \o STR_LF))]

\* command_handle_set_integration_time(microseconds): the status returned
\* and the state left.
command_handle_set_integration_time(s, microseconds) ==
    IF s.acquisition_state = "ACQ_STATE_RUNNING"
    THEN [status |-> "CMD_ERROR_BUSY", s |-> send_response(s, STR_MUST_STOP_FIRST)]
    ELSE IF ULess(microseconds, 10) \/ ULess(100000, microseconds)
    THEN [status |-> "CMD_ERROR_INVALID_PARAM", s |-> send_response(s, STR_RANGE)]
    ELSE LET s1 == HAL_TIM_PWM_Stop(s)
             s2 == HAL_TIM_SET_AUTORELOAD(s1, ArrValue(microseconds))
             s3 == HAL_TIM_SET_COMPARE(s2, CcrValue)
             s4 == HAL_TIM_SET_COUNTER(s3, 0)
             s5 == HAL_TIM_PWM_Start(s4)
             s6 == [s5 EXCEPT !.integration_time_us = microseconds]
         IN [status |-> "CMD_OK",
             s |-> send_response(s6, Snprintf(64, STR_OK_INT_TIME_SET_N
                                                   \o FormatLu(microseconds) \o STR_LF))]

\* Trim trailing spaces/returns: the loop stops at the last character that
\* is neither.
Trim(str) ==
    LET keep == {k \in 1..Len(str) : str[k] \notin TrimChars} IN
    IF keep = {} THEN <<>>
    ELSE SubSeq(str, 1, CHOOSE k \in keep : \A j \in keep : j <= k)

\* strncpy(clean_cmd, cmd, CMD_BUFFER_SIZE - 1) and the trimming loop.
CleanCmd(cmd) == Trim(SubSeq(cmd, 1, Min(Len(cmd), CMD_BUFFER_SIZE - 1)))

\* strncmp(str, prefix, Len(prefix)) == 0
StartsWith(str, prefix) == IsPrefix(prefix, str)

\* parse_and_execute_command(cmd)
parse_and_execute_command(s, cmd, overflow) ==
    LET clean_cmd == CleanCmd(cmd) IN
    IF clean_cmd = STR_START THEN command_handle_start(s)
    ELSE IF clean_cmd = STR_STOP THEN command_handle_stop(s)
    ELSE IF clean_cmd = STR_STATUS THEN command_handle_get_status(s)
    ELSE IF StartsWith(clean_cmd, STR_SET_INT_TIME)
    THEN LET param_str == SubSeq(clean_cmd, 14, Len(clean_cmd))
             int_time == atoi(param_str, overflow)
             r == command_handle_set_integration_time(s, int_time)
         IN IF r.status = "CMD_OK" THEN send_response(r.s, STR_OK_INT_TIME_SET)
            ELSE IF r.status = "CMD_ERROR_NOT_IMPLEMENTED"
            THEN send_response(r.s, STR_NOT_IMPLEMENTED)
            ELSE send_response(r.s, STR_INVALID_PARAM)
    ELSE send_response(s, Snprintf(64, STR_UNKNOWN_CMD \o clean_cmd \o STR_LF))

\* The record of one event of command_layer_process: what s0 was before the
\* byte `byte` was handled and what s1 is after.
Event(kind, byte, cmd, s0, s1) ==
    [kind |-> kind, trigger |-> byte, cmd |-> cmd,
     line_chars |-> s0.line_chars,
     state_before |-> s0.acquisition_state, state_after |-> s1.acquisition_state,
     time_before |-> s0.integration_time_us, time_after |-> s1.integration_time_us,
     tim_before |-> s0.tim5, tim_after |-> s1.tim5,
     tx_free |-> ring_buffer_free_space(s0.tx),
     replies |-> s1.replies, written |-> s1.written, tim_ops |-> s1.tim_ops]

Scratch(s) == [s EXCEPT !.replies = <<>>, !.written = <<>>, !.tim_ops = <<>>]

\* The loop body without the test `command_index > 0`: a terminator
\* dispatches whatever has accumulated, an empty line too.
ProcessByte_DispatchEmpty(s, byte, overflow) ==
    LET s0 == Scratch(s) IN
    IF byte \in Terminators
    THEN IF TRUE
         THEN LET cmd == CStr(s0.command_buffer)
                  s1 == parse_and_execute_command(s0, cmd, overflow)
              IN [s1 EXCEPT !.command_buffer = <<>>,
                            !.line_chars = 0,
                            !.events = Append(@, Event("dispatch", byte, s0.command_buffer, s0, s1))]
         ELSE [s0 EXCEPT !.line_chars = 0,
                         !.events = Append(@, Event("blank", byte, <<>>, s0, s0))]
    ELSE IF Len(s0.command_buffer) < CMD_BUFFER_SIZE - 1
    THEN [s0 EXCEPT !.command_buffer = Append(@, byte),
                    !.line_chars = @ + 1]
    ELSE LET s1 == send_response([s0 EXCEPT !.command_buffer = <<>>], STR_CMD_TOO_LONG)
         IN [s1 EXCEPT !.line_chars = @ + 1,
                       !.events = Append(@, Event("too_long", byte, s0.command_buffer, s0, s1))]

\* Plausible slip: the room test is `command_index < CMD_BUFFER_SIZE`, which
\* leaves no room for the terminating NUL.
ProcessByte_FillWhole(s, byte, overflow) ==
    LET s0 == Scratch(s) IN
    IF byte \in Terminators
    THEN IF Len(s0.command_buffer) > 0
         THEN LET cmd == CStr(s0.command_buffer)
                  s1 == parse_and_execute_command(s0, cmd, overflow)
              IN [s1 EXCEPT !.command_buffer = <<>>,
                            !.line_chars = 0,
                            !.events = Append(@, Event("dispatch", byte, s0.command_buffer, s0, s1))]
         ELSE [s0 EXCEPT !.line_chars = 0,
                         !.events = Append(@, Event("blank", byte, <<>>, s0, s0))]
    ELSE IF Len(s0.command_buffer) < CMD_BUFFER_SIZE
    THEN [s0 EXCEPT !.command_buffer = Append(@, byte),
                    !.line_chars = @ + 1]
    ELSE LET s1 == send_response([s0 EXCEPT !.command_buffer = <<>>], STR_CMD_TOO_LONG)
         IN [s1 EXCEPT !.line_chars = @ + 1,
                       !.events = Append(@, Event("too_long", byte, s0.command_buffer, s0, s1))]

\* The body of the loop of command_layer_process for one byte read.
ProcessByte(s, byte, overflow) ==
    LET s0 == Scratch(s) IN
    IF byte \in Terminators
    THEN IF Len(s0.command_buffer) > 0
         THEN LET cmd == CStr(s0.command_buffer)
                  s1 == parse_and_execute_command(s0, cmd, overflow)
              IN [s1 EXCEPT !.command_buffer = <<>>,
                            !.line_chars = 0,
                            !.events = Append(@, Event("dispatch", byte, s0.command_buffer, s0, s1))]
         ELSE [s0 EXCEPT !.line_chars = 0,
                         !.events = Append(@, Event("blank", byte, <<>>, s0, s0))]
    ELSE IF Len(s0.command_buffer) < CMD_BUFFER_SIZE - 1
    THEN [s0 EXCEPT !.command_buffer = Append(@, byte),
                    !.line_chars = @ + 1]
    ELSE LET s1 == send_response([s0 EXCEPT !.command_buffer = <<>>], STR_CMD_TOO_LONG)
         IN [s1 EXCEPT !.line_chars = @ + 1,
                       !.events = Append(@, Event("too_long", byte, s0.command_buffer, s0, s1))]

\* One pass of the while loop of command_layer_process(): the test of
\* usb_transport_available(), usb_transport_read_byte() and the loop body.
\* Once the loop has ended (nothing available, or the read failed and the
\* loop was left with break) a further pass changes nothing.
LoopPass(s, overflow) ==
    IF ring_buffer_available(s.rx) = 0 THEN s
    ELSE IF ~ring_buffer_read(s.rx).ret THEN s
    ELSE ProcessByte([s EXCEPT !.rx = ring_buffer_read(s.rx).rb],
                     ring_buffer_read(s.rx).out[1], overflow)

\* n passes of the loop, one after the other: the state t left by the first
\* half of them is the state the second half starts from.
RECURSIVE LoopPasses(_, _, _)
LoopPasses(s, n, overflow) ==
    IF n = 0 THEN s
    ELSE IF n = 1 THEN LoopPass(s, overflow)
    ELSE CHOOSE r \in {LoopPasses(t, n - (n \div 2), overflow) :
                          t \in {LoopPasses(s, n \div 2, overflow)}} : TRUE

\* command_layer_process(): with no rx callback during the call the loop
\* makes one pass for each byte available at the call.
command_layer_process(s, overflow) ==
    LoopPasses(s, ring_buffer_available(s.rx), overflow)

(***************************************************************************)
(* SpecCmd: the command engine fed by the host.  HostSendCommands is       *)
(* usb_transport_rx_callback delivering one USB packet of the host;        *)
(* CommandLayerProcess is one call of command_layer_process() from the     *)
(* main loop, run without an rx callback in between its steps.             *)
(***************************************************************************)
\* Number of packets the host sends in one run.
MaxSends == 2

\* The packets of the host: command lines, one or several to a packet.
\*   "START\n"
\*   "STOP\n"
\*   "STATUS\n"
\*   "FOO\n"
\*   "SET_INT_TIME:9\n"
\*   "SET_INT_TIME:10\n"
\*   "SET_INT_TIME:500\n"
\*   "SET_INT_TIME:100000\n"
\*   "SET_INT_TIME:100001\n"
\*   "SET_INT_TIME:-5\n"
\*   "SET_INT_TIME:abc\n"
\*   "SET_INT_TIME:4294967306\n"
\*   "START\nSTATUS\n"
\*   "STOP\nSET_INT_TIME:500\nSTATUS\n"
\*   "XXXX...X" (64 characters, no terminator)
CmdPackets ==
    { <<83, 84, 65, 82, 84, 10>>,
      <<83, 84, 79, 80, 10>>,
      <<83, 84, 65, 84, 85, 83, 10>>,
      <<70, 79, 79, 10>>,
      <<83, 69, 84, 95, 73, 78, 84, 95, 84, 73, 77, 69, 58, 57, 10>>,
      <<83, 69, 84, 95, 73, 78, 84, 95, 84, 73, 77, 69, 58, 49, 48, 10>>,
      <<83, 69, 84, 95, 73, 78, 84, 95, 84, 73, 77, 69, 58, 53, 48, 48, 10>>,
      <<83, 69, 84, 95, 73, 78, 84, 95, 84, 73, 77, 69, 58, 49, 48, 48, 48, 48, 48, 10>>,
      <<83, 69, 84, 95, 73, 78, 84, 95, 84, 73, 77, 69, 58, 49, 48, 48, 48, 48, 49, 10>>,
      <<83, 69, 84, 95, 73, 78, 84, 95, 84, 73, 77, 69, 58, 45, 53, 10>>,
      <<83, 69, 84, 95, 73, 78, 84, 95, 84, 73, 77, 69, 58, 97, 98, 99, 10>>,
      <<83, 69, 84, 95, 73, 78, 84, 95, 84, 73, 77, 69, 58, 52, 50, 57, 52, 57, 54, 55, 51, 48, 54, 10>>,
      <<83, 84, 65, 82, 84, 10, 83, 84, 65, 84, 85, 83, 10>>,
      <<83, 84, 79, 80, 10, 83, 69, 84, 95, 73, 78, 84, 95, 84, 73, 77, 69, 58, 53, 48, 48, 10, 83, 84, 65, 84, 85, 83, 10>>,
      [k \in 1..64 |-> 88] }

\* The statics of usb_transport.c after usb_transport_init() and those of
\* command_layer.c before command_layer_init().
Statics ==
    [rx |-> ring_buffer_init([i \in 0..(USB_RX_BUFFER_SIZE - 1) |-> Unwritten],
                             USB_RX_BUFFER_SIZE),
     tx |-> ring_buffer_init([i \in 0..(USB_TX_BUFFER_SIZE - 1) |-> Unwritten],
                             USB_TX_BUFFER_SIZE),
     stats |-> [rx_bytes_total |-> 0, tx_bytes_total |-> 0,
                rx_overflow_count |-> 0, tx_overflow_count |-> 0],
     acquisition_state |-> "ACQ_STATE_IDLE",
     integration_time_us |-> 20,
     command_buffer |-> <<>>,
     tim5 |-> [running |-> TRUE, arr |-> ArrValue(20), ccr |-> CcrValue, cnt |-> 1],
     events |-> <<>>, line_chars |-> 0,
     replies |-> <<>>, written |-> <<>>, tim_ops |-> <<>>]

\* Plausible slip: init leaves the engine acquiring.
command_layer_init_Running(s) ==
    send_response([s EXCEPT !.acquisition_state = "ACQ_STATE_RUNNING",
                            !.integration_time_us = 20,
                            !.command_buffer = <<>>],
                  STR_READY)

\* command_layer_init()
command_layer_init(s) ==
    send_response([s EXCEPT !.acquisition_state = "ACQ_STATE_IDLE",
                            !.integration_time_us = 20,
                            !.command_buffer = <<>>],
                  STR_READY)

\* The state s of the firmware as the variables hold it.
Current ==
    [rx |-> rx, tx |-> tx, stats |-> stats,
     acquisition_state |-> acquisition_state,
     integration_time_us |-> integration_time_us,
     command_buffer |-> command_buffer,
     tim5 |-> tim5,
     events |-> <<>>, line_chars |-> line_chars,
     replies |-> <<>>, written |-> <<>>, tim_ops |-> <<>>]

Holds(s) ==
    /\ rx = s.rx
    /\ tx = s.tx
    /\ stats = s.stats
    /\ acquisition_state = s.acquisition_state
    /\ integration_time_us = s.integration_time_us
    /\ command_buffer = s.command_buffer
    /\ tim5 = s.tim5
    /\ events = s.events
    /\ line_chars = s.line_chars

\* The most recent of START and STOP among the dispatches of evs, or
\* `before` if there is none.
MostRecent(evs, before) ==
    LET hits == {i \in 1..Len(evs) :
                    evs[i].kind = "dispatch" /\ Trim(evs[i].cmd) \in {STR_START, STR_STOP}}
    IN IF hits = {} THEN before
       ELSE Trim(evs[CHOOSE i \in hits : \A j \in hits : j <= i].cmd)

CmdInit ==
    /\ Holds(command_layer_init(Statics))
    /\ recent = <<>>
    /\ sends = 0

\* usb_transport_rx_callback(buffer, length) with a packet of the host.
Receive(data) ==
    \E w \in {ring_buffer_write_multiple(rx, data)} :
    /\ rx' = w.rb
    /\ stats' = [stats EXCEPT
                    !.rx_bytes_total = @ + w.ret,
                    !.rx_overflow_count = IF w.ret < Len(data) THEN @ + 1 ELSE @]
    /\ sends' = sends + 1
    /\ last' = [op |-> "rx_callback", ret |-> w.ret, length |-> Len(data), data |-> data]
    /\ UNCHANGED <<tx, acquisition_state, integration_time_us, command_buffer, tim5,
                   events, line_chars, recent>>
    /\ UNCHANGED <<cpc, creg, accepted, delivered, levels, chanVars, codecVars>>
    /\ UNCHANGED <<tx_in_progress, cdc, calls>>
    /\ RunsIn("interrupt")

HostSendCommands ==
    /\ sends < MaxSends
    /\ \E data \in CmdPackets : Receive(data)

\* command_layer_process()
CommandLayerProcess ==
    /\ \E overflow \in AtoiOverflow :
          \E s \in {command_layer_process(Current, overflow)} :
          /\ rx' = s.rx
          /\ tx' = s.tx
          /\ stats' = s.stats
          /\ acquisition_state' = s.acquisition_state
          /\ integration_time_us' = s.integration_time_us
          /\ command_buffer' = s.command_buffer
          /\ tim5' = s.tim5
          /\ events' = s.events
          /\ line_chars' = s.line_chars
          /\ recent' = MostRecent(s.events, recent)
    /\ last' = [op |-> "command_layer_process", ret |-> 0,
                pending |-> ring_buffer_available(rx),
                tx_before |-> stats.tx_bytes_total]
    /\ UNCHANGED <<sends, cpc, creg, accepted, delivered, levels, chanVars, codecVars>>
    /\ UNCHANGED <<tx_in_progress, cdc, calls>>
    /\ RunsIn("loop")

InitCmd ==
    /\ CmdInit
    /\ XferIdle
    /\ last = NoCall
    /\ ChanIdle
    /\ cpc = "idle"
    /\ creg = NoRegs
    /\ accepted = <<>>
    /\ delivered = <<>>
    /\ levels = {}
    /\ CodecIdle

NextCmd ==
    \/ HostSendCommands
    \/ CommandLayerProcess

SpecCmd == InitCmd /\ [][NextCmd]_vars

\* The packets of the host that exercise the assembly of lines:
\*   "\n"
\*   "START\r\n"
\*   "START \n"
\*   "START   \n"
\*   "start\n"
\*   " START\n"
\*   "STARTX\n"
\*   "STA RT\n"
\*   "STA"
\*   "RT\n"
\*   "STOP\r"
\*   "FOO\n"
\*   "START\0X\n"
\*   44 times 'X' and "\n"
\*   45 times 'X' and "\n"
\*   63 times 'X' and "\r"
\*   64 times 'X', no terminator
LinePackets ==
    { <<10>>,
      <<83, 84, 65, 82, 84, 13, 10>>,
      <<83, 84, 65, 82, 84, 32, 10>>,
      <<83, 84, 65, 82, 84, 32, 32, 32, 10>>,
      <<115, 116, 97, 114, 116, 10>>,
      <<32, 83, 84, 65, 82, 84, 10>>,
      <<83, 84, 65, 82, 84, 88, 10>>,
      <<83, 84, 65, 32, 82, 84, 10>>,
      <<83, 84, 65>>,
      <<82, 84, 10>>,
      <<83, 84, 79, 80, 13>>,
      <<70, 79, 79, 10>>,
      <<83, 84, 65, 82, 84, 0, 88, 10>>,
      [k \in 1..45 |-> IF k <= 44 THEN 88 ELSE 10],
      [k \in 1..46 |-> IF k <= 45 THEN 88 ELSE 10],
      [k \in 1..64 |-> IF k <= 63 THEN 88 ELSE 13],
      [k \in 1..64 |-> 88] }

HostSendLines ==
    /\ sends < MaxSends
    /\ \E data \in LinePackets : Receive(data)

NextLine ==
    \/ HostSendLines
    \/ CommandLayerProcess

\* SpecLine: the command engine fed with lines that are blank, split over
\* packets, padded, misspelt, long and oversized.
SpecLine == InitCmd /\ [][NextLine]_vars

(***************************************************************************)
(* Command engine properties.                                              *)
(***************************************************************************)
\* The event e handed exactly the text `text` to send_response, once, and
\* the outbound channel took all of it that it had room for.
ReplyIs(e, text) ==
    /\ e.replies = <<text>>
    /\ e.written = <<Min(Len(text), e.tx_free)>>

NoTimerOperation(e) == e.tim_ops = <<>> /\ e.tim_after = e.tim_before

\* The events of the last command_layer_process call that dispatched the
\* command text cmd (as it reads after trimming).
DispatchesOf(cmd) ==
    {i \in 1..Len(events) : events[i].kind = "dispatch" /\ Trim(events[i].cmd) = cmd}

\* C11: a dispatched START leaves the state Running and replies OK:STARTED,
\* a dispatched STOP leaves it Idle and replies OK:STOPPED, from either
\* state; neither changes the integration time; command_layer_is_acquiring()
\* is true exactly when the most recent START/STOP since init was START.
C11_StartStop ==
    /\ \A i \in DispatchesOf(STR_START) :
          /\ events[i].state_after = "ACQ_STATE_RUNNING"
          /\ events[i].time_after = events[i].time_before
          /\ ReplyIs(events[i], STR_OK_STARTED)
    /\ \A i \in DispatchesOf(STR_STOP) :
          /\ events[i].state_after = "ACQ_STATE_IDLE"
          /\ events[i].time_after = events[i].time_before
          /\ ReplyIs(events[i], STR_OK_STOPPED)
    /\ command_layer_is_acquiring <=> (recent = STR_START)

\* START has been dispatched while Running and has left the state Running.
C11_Witness ==
    \E i \in DispatchesOf(STR_START) :
        /\ events[i].state_before = "ACQ_STATE_RUNNING"
        /\ events[i].state_after = "ACQ_STATE_RUNNING"
        /\ events[i].replies = <<STR_OK_STARTED>>
        /\ command_layer_is_acquiring

\* The text d is the decimal numeral of n, without sign or leading zeros.
IsDecimalOf(d, n) ==
    /\ d # <<>>
    /\ \A k \in 1..Len(d) : d[k] \in 48..57
    /\ Len(d) > 1 => d[1] # 48
    /\ Len(d) <= 9
    /\ LET m == DigitsValue(0, 0, FALSE, d) IN FromHalves(m.hi, m.lo) = n

SetDispatches ==
    {i \in 1..Len(events) :
        events[i].kind = "dispatch" /\ StartsWith(Trim(events[i].cmd), STR_SET_INT_TIME)}

\* The parameter text of a SET_INT_TIME command.
ParamOf(e) == SubSeq(Trim(e.cmd), Len(STR_SET_INT_TIME) + 1, Len(Trim(e.cmd)))

\* C13 as stated: SET_INT_TIME:<n> dispatched while Running is answered with
\* the reply 'ERROR:MUST_STOP_FIRST' (and nothing else), the state stays
\* Running, the integration time is unchanged and no timer operation is
\* performed.
C13_BusyWhileRunning ==
    \A i \in SetDispatches :
        events[i].state_before = "ACQ_STATE_RUNNING" =>
            /\ ReplyIs(events[i], STR_MUST_STOP_FIRST)
            /\ events[i].state_after = "ACQ_STATE_RUNNING"
            /\ events[i].time_after = events[i].time_before
            /\ NoTimerOperation(events[i])

\* The number written as the text d (digits with an optional '-') lies
\* outside [10, 100000].
IsNumeral(d) ==
    /\ d # <<>>
    /\ \A k \in 1..Len(d) : d[k] \in 48..57 \/ (k = 1 /\ d[k] = 45 /\ Len(d) > 1)
OutsideRange(d) ==
    IF d[1] = 45 THEN TRUE
    ELSE LET m == DigitsValue(0, 0, FALSE, d)
         IN m.big \/ m.hi >= 2 \/ FromHalves(m.hi, m.lo) < 10
                  \/ FromHalves(m.hi, m.lo) > 100000

\* C14 as stated: SET_INT_TIME:<n> dispatched while Idle replies
\* 'ERROR:RANGE_10_TO_100000' and changes nothing when n is outside
\* [10, 100000]; otherwise it stores n, reprograms the timer (stop, period
\* 84n-1, compare 335, counter 0, start), stays Idle and replies
\* 'OK:INT_TIME_SET:<n>'.
C14_SetWhileIdle ==
    \A i \in SetDispatches :
        LET e == events[i]
            d == ParamOf(e)
            m == DigitsValue(0, 0, FALSE, d)
            n == FromHalves(m.hi, m.lo)
        IN (e.state_before = "ACQ_STATE_IDLE" /\ IsNumeral(d)) =>
              IF OutsideRange(d)
              THEN /\ ReplyIs(e, STR_RANGE)
                   /\ e.time_after = e.time_before
                   /\ e.state_after = "ACQ_STATE_IDLE"
                   /\ NoTimerOperation(e)
              ELSE /\ ReplyIs(e, STR_OK_INT_TIME_SET_N \o d \o STR_LF)
                   /\ e.time_after = n
                   /\ e.state_after = "ACQ_STATE_IDLE"
                   /\ e.tim_ops = << <<"PWM_Stop">>, <<"SET_AUTORELOAD", 84 * n - 1>>,
                                     <<"SET_COMPARE", 335>>, <<"SET_COUNTER", 0>>,
                                     <<"PWM_Start">> >>

\* C15 as stated: every dispatched command line causes exactly one reply to
\* be written to the outbound channel, and that reply ends with a newline.
C15_ExactlyOneReply ==
    \A i \in 1..Len(events) :
        events[i].kind = "dispatch" =>
            /\ Len(events[i].replies) = 1
            /\ events[i].replies[1] # <<>>
            /\ events[i].replies[1][Len(events[i].replies[1])] = 10

\* The events evs lead from the integration time t0 to t1: each starts from
\* the value the one before it has left.
TimeChain(evs, t0, t1) ==
    IF evs = <<>> THEN t1 = t0
    ELSE /\ evs[1].time_before = t0
         /\ \A i \in 1..(Len(evs) - 1) : evs[i + 1].time_before = evs[i].time_after
         /\ evs[Len(evs)].time_after = t1

IsUnknown(cmd) ==
    /\ cmd \notin {STR_START, STR_STOP, STR_STATUS}
    /\ ~StartsWith(cmd, STR_SET_INT_TIME)

\* C16 as stated: every dispatched line that is not START, STOP, STATUS and
\* does not begin with 'SET_INT_TIME:' is answered with exactly
\* 'ERROR:UNKNOWN_CMD:', the complete command text and a newline, whatever
\* its length from 1 to 63; state and integration time are unchanged.
\* (Stated for the lines that hold no NUL character.)
C16_UnknownEchoed ==
    \A i \in 1..Len(events) :
        (/\ events[i].kind = "dispatch"
         /\ CStr(events[i].cmd) = events[i].cmd
         /\ IsUnknown(Trim(events[i].cmd))) =>
            /\ ReplyIs(events[i], STR_UNKNOWN_CMD \o Trim(events[i].cmd) \o STR_LF)
            /\ events[i].state_after = events[i].state_before
            /\ events[i].time_after = events[i].time_before

\* C17 as stated: the 64th character of a line without terminator makes
\* command_layer_process reply 'ERROR:CMD_TOO_LONG', and from then on up to
\* and including the terminator of that line nothing is dispatched, nothing
\* else is replied and neither state nor integration time changes.
C17_OversizedLineLost ==
    \A i \in 1..Len(events) :
        LET e == events[i]
            \* the characters of the line, the one of this event included
            chars == e.line_chars + (IF e.trigger \in Terminators THEN 0 ELSE 1)
        IN /\ e.kind = "too_long" => chars >= CMD_BUFFER_SIZE
           /\ chars >= CMD_BUFFER_SIZE =>
                 /\ e.state_after = e.state_before
                 /\ e.time_after = e.time_before
                 /\ IF chars = CMD_BUFFER_SIZE /\ e.trigger \notin Terminators
                    THEN e.kind = "too_long" /\ ReplyIs(e, STR_CMD_TOO_LONG)
                    ELSE e.kind # "dispatch" /\ e.replies = <<>>

\* The sum of the numbers of the sequence ns.
RECURSIVE SumOf(_)
SumOf(ns) == IF ns = <<>> THEN 0 ELSE ns[1] + SumOf(Tail(ns))

\* The bytes that the events evs have put on the outbound channel.
RECURSIVE WrittenBy(_)
WrittenBy(evs) ==
    IF evs = <<>> THEN 0 ELSE SumOf(evs[1].written) + WrittenBy(Tail(evs))

C19_ExactMatch ==
    \A i \in 1..Len(events) :
        LET e == events[i] IN
        e.kind = "dispatch" =>
            /\ (Trim(e.cmd) = STR_START) <=> (e.replies = <<STR_OK_STARTED>>)
            /\ IsUnknown(Trim(e.cmd)) =>
                  /\ e.replies # <<>>
                  /\ IsPrefix(STR_UNKNOWN_CMD, e.replies[1])
                  /\ e.state_after = e.state_before

\* The timer operations ops, started with the timer running or not, write
\* the period, compare and counter registers only while the timer is
\* stopped.
RECURSIVE WritesWhileStopped(_, _)
WritesWhileStopped(ops, running) ==
    IF ops = <<>> THEN TRUE
    ELSE LET op == ops[1][1] IN
         IF op = "PWM_Stop" THEN WritesWhileStopped(Tail(ops), FALSE)
         ELSE IF op = "PWM_Start" THEN WritesWhileStopped(Tail(ops), TRUE)
         ELSE ~running /\ WritesWhileStopped(Tail(ops), running)

\* The SET_INT_TIME dispatch e was accepted: it has replied OK:INT_TIME_SET:<n>.
Accepted(e) ==
    /\ e.replies # <<>>
    /\ IsPrefix(STR_OK_INT_TIME_SET_N, e.replies[1])

\* C21: an accepted SET_INT_TIME drives the timer stop, period (84n-1),
\* compare (335), counter (0), start, in this order and nothing else; the
\* registers are written only while the timer is stopped and the timer runs
\* again afterwards; a rejected SET_INT_TIME neither stops nor writes the
\* timer.
C21_TimerSequence ==
    /\ tim5.running
    /\ \A i \in SetDispatches :
          LET e == events[i] IN
          IF Accepted(e)
          THEN /\ e.tim_ops = << <<"PWM_Stop">>,
                                 <<"SET_AUTORELOAD", (84 * e.time_after) - 1>>,
                                 <<"SET_COMPARE", 335>>,
                                 <<"SET_COUNTER", 0>>,
                                 <<"PWM_Start">> >>
               /\ WritesWhileStopped(e.tim_ops, e.tim_before.running)
               /\ e.tim_after = [running |-> TRUE, arr |-> (84 * e.time_after) - 1,
                                 ccr |-> 335, cnt |-> 0]
          ELSE /\ NoTimerOperation(e)
               /\ e.time_after = e.time_before

\* SET_INT_TIME:500 has been accepted and, in the same call, a later
\* SET_INT_TIME has been rejected: the timer runs with the period of 500 us.
C21_Witness ==
    /\ \E i \in SetDispatches :
          /\ Accepted(events[i])
          /\ events[i].time_after = 500
          /\ Len(events[i].tim_ops) = 5
    /\ tim5 = [running |-> TRUE, arr |-> 41999, ccr |-> 335, cnt |-> 0]

\* C22: command_layer_init leaves the engine Idle with integration time 20
\* and an empty line accumulator and has written the one line
\* 'TCD1304_READY' to the outbound channel; the state leaves Idle only by a
\* START that command_layer_process dispatches.
C22_InitIdleAndReady ==
    /\ acquisition_state = "ACQ_STATE_IDLE"
    /\ ~command_layer_is_acquiring
    /\ integration_time_us = 20
    /\ command_buffer = <<>>
    /\ ring_buffer_read_multiple(tx, USB_TX_BUFFER_SIZE).out = STR_READY
    /\ stats.tx_bytes_total = Len(STR_READY)
    /\ stats.tx_overflow_count = 0
    /\ [][(acquisition_state = "ACQ_STATE_IDLE" /\ acquisition_state' # "ACQ_STATE_IDLE") =>
              \E i \in 1..Len(events') :
                  /\ events'[i].kind = "dispatch"
                  /\ Trim(events'[i].cmd) = STR_START
                  /\ events'[i].state_before = "ACQ_STATE_IDLE"]_vars

\* Commands other than START have been dispatched since init (STOP,
\* SET_INT_TIME:500 and STATUS in one call) and the state is still Idle, with
\* the READY line first in the outbound channel.
C22_Witness ==
    /\ Len(events) = 3
    /\ recent = STR_STOP
    /\ acquisition_state = "ACQ_STATE_IDLE"
    /\ IsPrefix(STR_READY, ring_buffer_read_multiple(tx, Len(STR_READY)).out)

(***************************************************************************)
(* usb_transport.c: the send paths.  Each function is given the statics t  *)
(* (tx, stats, tx_in_progress) together with the device (cdc) and returns  *)
(* them as the call leaves them.  `result` is what CDC_Transmit_FS         *)
(* returns if the call reaches it.                                         *)
(***************************************************************************)
\* The results of CDC_Transmit_FS: accepted, or not.
CdcResults == {"USBD_OK", "USBD_BUSY"}

\* CDC_Transmit_FS(buffer, length) returning `result`: an accepted transfer
\* is in flight until the device reports its completion.
CDC_Transmit_FS(t, result) ==
    IF result = "USBD_OK"
    THEN [t EXCEPT !.cdc.in_flight = @ + 1]
    ELSE t

\* Plausible slip: the direct send does not look at tx_in_progress.
usb_transport_send_direct_NoBusyCheck(t, length, result) ==
    IF result = "USBD_OK"
    THEN [t |-> [CDC_Transmit_FS(t, result) EXCEPT
                    !.tx_in_progress = TRUE,
                    !.stats = [@ EXCEPT !.tx_bytes_total = @ + length]],
          ret |-> TRUE, called |-> TRUE]
    ELSE [t |-> t, ret |-> FALSE, called |-> TRUE]

\* usb_transport_send_direct(buffer, length): `called` tells whether
\* CDC_Transmit_FS was reached.
usb_transport_send_direct(t, length, result) ==
    IF t.tx_in_progress
    THEN [t |-> t, ret |-> FALSE, called |-> FALSE]
    ELSE IF result = "USBD_OK"
    THEN [t |-> [CDC_Transmit_FS(t, result) EXCEPT
                    !.tx_in_progress = TRUE,
                    !.stats = [@ EXCEPT !.tx_bytes_total = @ + length]],
          ret |-> TRUE, called |-> TRUE]
    ELSE [t |-> CDC_Transmit_FS(t, result), ret |-> FALSE, called |-> TRUE]

\* Plausible slip: the whole content of the channel is read for one packet.
tx_flush_NoLimit(t, result) ==
    IF t.tx_in_progress \/ ring_buffer_available(t.tx) = 0
    THEN [t |-> t, called |-> FALSE, handed |-> <<>>]
    ELSE LET rd == ring_buffer_read_multiple(t.tx, ring_buffer_available(t.tx))
         IN IF result = "USBD_OK"
            THEN [t |-> [CDC_Transmit_FS([t EXCEPT !.tx = rd.rb], result)
                            EXCEPT !.tx_in_progress = TRUE],
                  called |-> TRUE, handed |-> rd.out]
            ELSE [t |-> [t EXCEPT !.tx = ring_buffer_write_multiple(rd.rb, rd.out).rb],
                  called |-> TRUE, handed |-> rd.out]

\* tx_flush(): `handed` is temp_buffer[0 .. read_count-1] as passed to
\* CDC_Transmit_FS.
tx_flush(t, result) ==
    IF t.tx_in_progress
    THEN [t |-> t, called |-> FALSE, handed |-> <<>>]
    ELSE LET available == ring_buffer_available(t.tx) IN
         IF available = 0
         THEN [t |-> t, called |-> FALSE, handed |-> <<>>]
         ELSE LET to_send == IF available > 64 THEN 64 ELSE available
                  rd == ring_buffer_read_multiple(t.tx, to_send)
              IN IF result = "USBD_OK"
                 THEN [t |-> [CDC_Transmit_FS([t EXCEPT !.tx = rd.rb], result)
                                 EXCEPT !.tx_in_progress = TRUE],
                       called |-> TRUE, handed |-> rd.out]
                 ELSE [t |-> [CDC_Transmit_FS([t EXCEPT !.tx = rd.rb], result) EXCEPT
                                 !.tx = ring_buffer_write_multiple(rd.rb, rd.out).rb],
                       called |-> TRUE, handed |-> rd.out]

\* Plausible slip: the poll starts a new transfer although one is in flight.
usb_transport_process_Retry(t, result) ==
    IF ~ring_buffer_is_empty(t.tx)
    THEN tx_flush([t EXCEPT !.tx_in_progress = FALSE], result)
    ELSE [t |-> t, called |-> FALSE, handed |-> <<>>]

\* usb_transport_process()
usb_transport_process(t, result) ==
    IF ~t.tx_in_progress /\ ~ring_buffer_is_empty(t.tx)
    THEN tx_flush(t, result)
    ELSE [t |-> t, called |-> FALSE, handed |-> <<>>]

\* usb_transport_tx_complete_callback()
usb_transport_tx_complete_callback(t) == [t EXCEPT !.tx_in_progress = FALSE]

\* usb_transport_is_tx_busy()
usb_transport_is_tx_busy == tx_in_progress

(***************************************************************************)
(* SpecTx: the transport between the application, the command engine and  *)
(* the USB device.  The main loop calls the write functions, the direct    *)
(* send, usb_transport_process() and command_layer_process(); the USB      *)
(* interrupts deliver packets of the host and report the completion of     *)
(* accepted transfers.  Each call runs to its end before the next step.    *)
(***************************************************************************)
\* Number of calls of the write, send and process functions in one run.
MaxCalls == 3

\* Buffers written with usb_transport_write: 70 and 300 bytes.
TxBuffers ==
    { [k \in 1..70 |-> k], [k \in 1..300 |-> k % 256] }

\* Strings written with usb_transport_write_string: "OK\n" with bytes
\* behind its terminating NUL.
TxStrings == { <<79, 75, 10, 0, 66>> }

\* Length of the frames handed to usb_transport_send_direct:
\* sizeof(CCD_Frame_t) with 3694 pixels.
SendLengths == {7402}

\* Packets of the host: "STATUS\n", and one hundred lines "X\n" at once.
LongBurst == [k \in 1..200 |-> IF k % 2 = 1 THEN 88 ELSE 10]
BurstPackets == { <<83, 84, 65, 84, 85, 83, 10>>, LongBurst }

\* The statics of the send paths as the variables hold them.
TxCurrent ==
    [tx |-> tx, stats |-> stats, tx_in_progress |-> tx_in_progress, cdc |-> cdc]

TxHolds(t) ==
    /\ tx' = t.tx
    /\ stats' = t.stats
    /\ tx_in_progress' = t.tx_in_progress
    /\ cdc' = t.cdc

\* What a call of the main loop into the transport leaves alone.
LoopCall ==
    /\ calls < MaxCalls
    /\ calls' = calls + 1
    /\ UNCHANGED <<rx, acquisition_state, integration_time_us, command_buffer, tim5,
                   events, line_chars, recent, sends>>
    /\ UNCHANGED <<cpc, creg, accepted, delivered, levels, chanVars, codecVars>>
    /\ RunsIn("loop")

UsbTransportWrite ==
    \E buffer \in TxBuffers :
        \E w \in {usb_transport_write(TxCurrent, buffer)} :
            /\ TxHolds(w.t)
            /\ last' = [op |-> "usb_transport_write", ret |-> w.ret, data |-> buffer]
            /\ LoopCall

UsbTransportWriteString ==
    \E str \in TxStrings :
        \E w \in {usb_transport_write_string(TxCurrent, str)} :
            /\ TxHolds(w.t)
            /\ last' = [op |-> "usb_transport_write_string", ret |-> w.ret,
                        data |-> CStr(str)]
            /\ LoopCall

UsbTransportWriteByte ==
    \E data \in {90} :
        \E w \in {usb_transport_write_byte(TxCurrent, data)} :
            /\ TxHolds(w.t)
            /\ last' = [op |-> "usb_transport_write_byte", ret |-> w.ret, data |-> <<data>>]
            /\ LoopCall

UsbTransportSendDirect ==
    \E length \in SendLengths, result \in CdcResults :
        \E c \in {usb_transport_send_direct(TxCurrent, length, result)} :
            /\ TxHolds(c.t)
            /\ last' = [op |-> "usb_transport_send_direct", ret |-> c.ret,
                        called |-> c.called, length |-> length,
                        result |-> IF c.called THEN result ELSE "none"]
            /\ LoopCall

UsbTransportProcess ==
    \E result \in CdcResults :
        \E c \in {usb_transport_process(TxCurrent, result)} :
            /\ TxHolds(c.t)
            /\ last' = [op |-> "usb_transport_process",
                        called |-> c.called, handed |-> c.handed,
                        result |-> IF c.called THEN result ELSE "none"]
            /\ LoopCall

\* The device reports the completion of a transfer it had accepted: the
\* interrupt calls usb_transport_tx_complete_callback().
TxComplete ==
    /\ cdc.in_flight > 0
    /\ TxHolds(usb_transport_tx_complete_callback(
                   [TxCurrent EXCEPT !.cdc.in_flight = @ - 1]))
    /\ last' = [op |-> "usb_transport_tx_complete_callback"]
    /\ UNCHANGED <<rx, acquisition_state, integration_time_us, command_buffer, tim5,
                   events, line_chars, recent, sends, calls>>
    /\ UNCHANGED <<cpc, creg, accepted, delivered, levels, chanVars, codecVars>>
    /\ RunsIn("interrupt")

HostSendBurst ==
    /\ sends < MaxSends
    /\ \E data \in BurstPackets : Receive(data)

\* Nothing reads the inbound channel in SpecTx: the packets stay queued.
HostSendUnread ==
    /\ sends < MaxSends
    /\ \E data \in {LongBurst} : Receive(data)

NextTx ==
    \/ UsbTransportWrite
    \/ UsbTransportWriteString
    \/ UsbTransportWriteByte
    \/ UsbTransportSendDirect
    \/ UsbTransportProcess
    \/ TxComplete
    \/ HostSendUnread

SpecTx == InitCmd /\ [][NextTx]_vars

(***************************************************************************)
(* SpecBurst: the host sends bursts of commands; the main loop runs        *)
(* command_layer_process() and polls the transport with                    *)
(* usb_transport_process().                                                *)
(***************************************************************************)
NextBurst ==
    \/ HostSendBurst
    \/ CommandLayerProcess
    \/ UsbTransportProcess
    \/ TxComplete

SpecBurst == InitCmd /\ [][NextBurst]_vars

(***************************************************************************)
(* Transport properties.                                                   *)
(***************************************************************************)
\* The bytes queued in the ring buffer r, oldest first.
Content(r) ==
    [k \in 1..ring_buffer_available(r) |-> r.buffer[(r.tail + k - 1) % r.size]]

\* C23: usb_transport_send_direct called while a transfer is in flight
\* returns false, does not reach the device and changes neither the flag,
\* the statistics nor the outbound channel; called with none in flight it
\* reaches the device, and it returns true with the flag set exactly when
\* the device accepts, otherwise false with the flag clear; the bytes of a
\* rejected send are not put on the outbound channel.
C23_SendDirect ==
    [][last'.op = "usb_transport_send_direct" =>
          IF tx_in_progress
          THEN /\ ~last'.ret /\ ~last'.called
               /\ tx_in_progress'
               /\ stats' = stats /\ tx' = tx /\ cdc' = cdc
          ELSE /\ last'.called
               /\ last'.ret <=> (last'.result = "USBD_OK")
               /\ tx_in_progress' = last'.ret
               /\ cdc'.in_flight = cdc.in_flight + (IF last'.ret THEN 1 ELSE 0)
               /\ tx' = tx
               /\ stats' = [stats EXCEPT !.tx_bytes_total =
                                @ + (IF last'.ret THEN last'.length ELSE 0)]]_vars

\* A direct send has been refused because the transfer accepted before it
\* is still in flight.
C23_Witness ==
    /\ last.op = "usb_transport_send_direct"
    /\ ~last.ret /\ ~last.called
    /\ tx_in_progress
    /\ cdc.in_flight = 1

\* C24: usb_transport_process reaches the device only when no send is in
\* flight and the outbound channel is not empty; it then passes the first
\* min(64, available) bytes of the channel, and if the device accepts them
\* they are gone from the channel and the flag is set; with a send in flight
\* or the channel empty it leaves channel, flag and device untouched.
C24_ProcessFlushesChunk ==
    [][last'.op = "usb_transport_process" =>
          IF ~tx_in_progress /\ ~ring_buffer_is_empty(tx)
          THEN LET n == Min(64, ring_buffer_available(tx)) IN
               /\ last'.called
               /\ last'.handed = SubSeq(Content(tx), 1, n)
               /\ tx_in_progress' = (last'.result = "USBD_OK")
               /\ last'.result = "USBD_OK" =>
                     /\ Content(tx') = SubSeq(Content(tx), n + 1, Len(Content(tx)))
                     /\ cdc'.in_flight = cdc.in_flight + 1
               /\ last'.result # "USBD_OK" => cdc' = cdc
          ELSE /\ ~last'.called
               /\ tx' = tx /\ tx_in_progress' = tx_in_progress /\ cdc' = cdc]_vars

\* A poll has handed a full packet of 64 bytes to the device, which has
\* accepted it; more bytes wait in the channel.
C24_Witness ==
    /\ last.op = "usb_transport_process"
    /\ last.called /\ last.result = "USBD_OK"
    /\ Len(last.handed) = 64
    /\ tx_in_progress
    /\ ~ring_buffer_is_empty(tx)

\* C25: usb_transport_write, usb_transport_write_string and
\* usb_transport_rx_callback enqueue the first min(length, free_space) bytes
\* they are given behind the bytes already queued and drop the rest; the
\* write functions return that number; the overflow counter of the channel
\* goes up by one when bytes were dropped and does not change otherwise.  A
\* failed usb_transport_write_byte adds one to tx_overflow_count and changes
\* nothing else.
C25_OverflowCounted ==
    [][/\ last'.op \in {"usb_transport_write", "usb_transport_write_string"} =>
             LET n == Min(Len(last'.data), ring_buffer_free_space(tx)) IN
             /\ Content(tx') = Content(tx) \o SubSeq(last'.data, 1, n)
             /\ last'.ret = n
             /\ stats' = [stats EXCEPT
                             !.tx_bytes_total = @ + n,
                             !.tx_overflow_count =
                                 IF n < Len(last'.data) THEN @ + 1 ELSE @]
             /\ rx' = rx
       /\ last'.op = "rx_callback" =>
             LET n == Min(Len(last'.data), ring_buffer_free_space(rx)) IN
             /\ Content(rx') = Content(rx) \o SubSeq(last'.data, 1, n)
             /\ stats' = [stats EXCEPT
                             !.rx_bytes_total = @ + n,
                             !.rx_overflow_count =
                                 IF n < Len(last'.data) THEN @ + 1 ELSE @]
             /\ tx' = tx
       /\ (last'.op = "usb_transport_write_byte" /\ ~last'.ret) =>
             /\ ring_buffer_is_full(tx)
             /\ tx' = tx
             /\ stats' = [stats EXCEPT !.tx_overflow_count = @ + 1]
             /\ rx' = rx /\ tx_in_progress' = tx_in_progress /\ cdc' = cdc]_vars

\* A write of 300 bytes has found less room than that: part of it has been
\* enqueued, the outbound channel is full and one overflow is counted.
C25_Witness ==
    /\ last.op = "usb_transport_write"
    /\ Len(last.data) = 300
    /\ last.ret > 0 /\ last.ret < 300
    /\ ring_buffer_is_full(tx)
    /\ stats.tx_overflow_count = 1

\* C27 as stated: every shared field is changed by one context only: the
\* inbound head by the interrupt, the inbound tail, the outbound head and
\* tail, the acquisition state and the frame counter by the main loop, and
\* the send-in-flight flag by a single context.
C27_SingleWriter ==
    /\ writers["rx.head"] \subseteq {"interrupt"}
    /\ \A f \in {"rx.tail", "tx.head", "tx.tail", "acquisition_state", "frame_counter"} :
          writers[f] \subseteq {"loop"}
    /\ Cardinality(writers["tx_in_progress"]) <= 1

\* C28: while the flag is set and the device does not report completion,
\* the flag stays set, usb_transport_send_direct returns false without
\* reaching the device, usb_transport_process dequeues nothing, and nothing
\* is handed to the device.
C28_StuckWithoutCompletion ==
    [][(tx_in_progress /\ last'.op # "usb_transport_tx_complete_callback") =>
          /\ tx_in_progress'
          /\ cdc' = cdc
          /\ tx'.tail = tx.tail
          /\ last'.op = "usb_transport_send_direct" => (~last'.ret /\ ~last'.called)
          /\ last'.op = "usb_transport_process" =>
                (~last'.called /\ last'.handed = <<>>)]_vars

\* With a transfer in flight and not completed, a write has queued bytes
\* and the poll after it has left them in the channel.
C28_Witness ==
    /\ tx_in_progress
    /\ cdc.in_flight = 1
    /\ last.op = "usb_transport_process"
    /\ ~last.called
    /\ ring_buffer_available(tx) >= 70
    /\ calls >= 3

\* C26 as stated: when command_layer_process drains the inbound channel (at
\* most 255 bytes) with the outbound channel empty at the call, every reply
\* it produces is enqueued in full and tx_overflow_count does not move.
C26_BurstNeverDropped ==
    [][(/\ last'.op = "command_layer_process"
        /\ ring_buffer_is_empty(tx)
        /\ ring_buffer_available(rx) <= USB_RX_BUFFER_SIZE - 1) =>
          /\ stats'.tx_overflow_count = stats.tx_overflow_count
          /\ \A i \in 1..Len(events') :
                \A k \in 1..Len(events'[i].replies) :
                    events'[i].written[k] = Len(events'[i].replies[k])
          /\ ring_buffer_available(tx') = WrittenBy(events')]_vars

(***************************************************************************)
(* SpecReadLine: the host sends text; the main loop reads it line by line  *)
(* with usb_transport_read_line().                                         *)
(***************************************************************************)
\* Values of max_length used by the callers: 0 (no buffer at all), 1 (room
\* for the NUL only), 4 and 8.
LineBufferSizes == {0, 1, 4, 8}

\* Packets of the host:
\*   "AB\n"  "AB\r"  "AB\r\nC"  "\nD\r"  "ABC\n"  "ABCDEFGH\n"  "AB"
TextPackets ==
    { <<65, 66, 10>>, <<65, 66, 13>>, <<65, 66, 13, 10, 67>>, <<10, 68, 13>>,
      <<65, 66, 67, 10>>, <<65, 66, 67, 68, 69, 70, 71, 72, 10>>, <<65, 66>> }

\* Plausible slip: the '\n' that follows a '\r' is left in the channel.
RECURSIVE ReadLineLoop_KeepLf(_, _, _, _)
ReadLineLoop_KeepLf(r, count, buffer, max_length) ==
    IF ~(count < max_length - 1)
    THEN [rx |-> r, ret |-> 0,
          buffer |-> IF max_length - 1 >= 0 THEN [buffer EXCEPT ![max_length] = 0]
                     ELSE buffer,
          below |-> IF max_length - 1 = -1 THEN 0 ELSE Unwritten]
    ELSE LET pk == ring_buffer_peek(r) IN
         IF ~pk.ret
         THEN [rx |-> r, buffer |-> buffer, below |-> Unwritten, ret |-> 0]
         ELSE IF pk.out[1] \in {10, 13}
         THEN [rx |-> ring_buffer_read(r).rb,
               buffer |-> [buffer EXCEPT ![count + 1] = 0], below |-> Unwritten,
               ret |-> count]
         ELSE ReadLineLoop_KeepLf(ring_buffer_read(r).rb, count + 1,
                                  [buffer EXCEPT ![count + 1] = pk.out[1]], max_length)

usb_transport_read_line_KeepLf(r, max_length) ==
    ReadLineLoop_KeepLf(r, 0, [k \in 1..max_length |-> Unwritten], max_length)

\* The while loop of usb_transport_read_line from the state (r, count,
\* buffer), and the statements behind it.  buffer[k] is the C buffer[k-1];
\* `below` is the byte in front of the buffer, the C buffer[-1], which
\* `buffer[max_length - 1] = '\0'` stores to when max_length is 0
\* (max_length - 1 is the int -1, and `count < -1` keeps the loop from
\* running).
RECURSIVE ReadLineLoop(_, _, _, _)
ReadLineLoop(r, count, buffer, max_length) ==
    IF ~(count < max_length - 1)
    THEN [rx |-> r, ret |-> 0,
          buffer |-> IF max_length - 1 >= 0 THEN [buffer EXCEPT ![max_length] = 0]
                     ELSE buffer,
          below |-> IF max_length - 1 = -1 THEN 0 ELSE Unwritten]
    ELSE LET pk == ring_buffer_peek(r) IN
         IF ~pk.ret
         THEN [rx |-> r, buffer |-> buffer, below |-> Unwritten, ret |-> 0]
         ELSE LET byte == pk.out[1]
                  rd == ring_buffer_read(r)
              IN IF byte = 10 \/ byte = 13
                 THEN LET pk2 == ring_buffer_peek(rd.rb)
                          after == IF byte = 13 /\ pk2.ret /\ pk2.out[1] = 10
                                   THEN ring_buffer_read(rd.rb).rb
                                   ELSE rd.rb
                      IN [rx |-> after,
                          buffer |-> [buffer EXCEPT ![count + 1] = 0],
                          below |-> Unwritten,
                          ret |-> count]
                 ELSE ReadLineLoop(rd.rb, count + 1,
                                   [buffer EXCEPT ![count + 1] = byte], max_length)

\* usb_transport_read_line(buffer, max_length) on the inbound ring buffer r;
\* the caller's buffer starts unwritten.
usb_transport_read_line(r, max_length) ==
    ReadLineLoop(r, 0, [k \in 1..max_length |-> Unwritten], max_length)

HostSendText ==
    /\ sends < MaxSends
    /\ \E data \in TextPackets : Receive(data)

UsbTransportReadLine ==
    /\ calls < MaxCalls
    /\ \E max_length \in LineBufferSizes :
          \E c \in {usb_transport_read_line(rx, max_length)} :
              /\ rx' = c.rx
              /\ last' = [op |-> "usb_transport_read_line", ret |-> c.ret,
                          buffer |-> c.buffer, below |-> c.below,
                          max_length |-> max_length, before |-> Content(rx)]
    /\ calls' = calls + 1
    /\ UNCHANGED <<tx, stats, acquisition_state, integration_time_us, command_buffer,
                   tim5, events, line_chars, recent, sends>>
    /\ UNCHANGED <<cpc, creg, accepted, delivered, levels, chanVars, codecVars>>
    /\ UNCHANGED <<tx_in_progress, cdc>>
    /\ RunsIn("loop")

NextReadLine ==
    \/ HostSendText
    \/ UsbTransportReadLine

SpecReadLine == InitCmd /\ [][NextReadLine]_vars

\* The lengths n of a line X = c[1..n] at the front of c: X is not empty,
\* holds no terminator and is followed by one.
LineAtFront(c) ==
    {n \in 1..(Len(c) - 1) :
        /\ \A k \in 1..n : c[k] \notin Terminators
        /\ c[n + 1] \in Terminators}

\* Length of the terminator that follows c[1..n]: 2 for "\r\n", else 1.
TerminatorLen(c, n) ==
    IF c[n + 1] = 13 /\ Len(c) >= n + 2 /\ c[n + 2] = 10 THEN 2 ELSE 1

\* C29: a call of usb_transport_read_line with a line X at the front of the
\* inbound channel, 1 <= len(X) < max_length-1, followed by '\n', '\r' or
\* "\r\n", returns len(X), leaves X and a NUL in the buffer, and removes X
\* and the whole terminator from the channel, the bytes behind it staying
\* queued in order; a call on an empty channel returns 0 and leaves the
\* channel empty.
C29_ReadLine ==
    [][last'.op = "usb_transport_read_line" =>
          LET c == Content(rx)
              max_length == last'.max_length
          IN /\ \A n \in LineAtFront(c) :
                    n < max_length - 1 =>
                       /\ last'.ret = n
                       /\ SubSeq(last'.buffer, 1, n) = SubSeq(c, 1, n)
                       /\ last'.buffer[n + 1] = 0
                       /\ Content(rx') = SubSeq(c, n + TerminatorLen(c, n) + 1, Len(c))
             /\ c = <<>> =>
                    /\ last'.ret = 0
                    /\ rx' = rx]_vars

\* A call returned 2 for "AB\r\nC...": both terminator bytes are gone and
\* the channel starts with the 'C' that followed them.
C29_Witness ==
    /\ last.op = "usb_transport_read_line"
    /\ last.ret = 2
    /\ Len(last.before) >= 5
    /\ SubSeq(last.before, 1, 5) = <<65, 66, 13, 10, 67>>
    /\ SubSeq(last.buffer, 1, 3) = <<65, 66, 0>>
    /\ Content(rx) = SubSeq(last.before, 5, Len(last.before))

(***************************************************************************)
(* SpecRace: the send paths statement by statement.  The main loop reads   *)
(* tx_in_progress, calls CDC_Transmit_FS and stores the flag in separate   *)
(* steps; the transmit-complete interrupt can run between any two of them. *)
(* cpc is the position of the main loop, creg its locals: call (the        *)
(* function), n (length / read_count), h (1 iff CDC_Transmit_FS returned   *)
(* USBD_OK), out (temp_buffer).                                            *)
(***************************************************************************)
\* What a statement of the send paths leaves alone.
SendStep ==
    /\ UNCHANGED <<rx, acquisition_state, integration_time_us, command_buffer, tim5,
                   events, line_chars, recent, sends>>
    /\ UNCHANGED <<accepted, delivered, levels, chanVars, codecVars>>
    /\ RunsIn("loop")

\* The application queues bytes between two calls of the send paths.
RaceWrite ==
    /\ cpc = "idle"
    /\ UsbTransportWrite

\* usb_transport_send_direct, `if (tx_in_progress) return false;`
SendDirectCheck ==
    /\ cpc = "idle"
    /\ calls < MaxCalls
    /\ calls' = calls + 1
    /\ \E length \in SendLengths :
          IF tx_in_progress
          THEN /\ cpc' = "idle"
               /\ creg' = NoRegs
               /\ last' = [op |-> "usb_transport_send_direct", ret |-> FALSE,
                           called |-> FALSE, length |-> length, result |-> "none"]
          ELSE /\ cpc' = "send_direct_transmit"
               /\ creg' = [NoRegs EXCEPT !.call = "send_direct", !.n = length]
               /\ last' = [op |-> "send_direct_check"]
    /\ UNCHANGED <<tx, stats, tx_in_progress, cdc>>
    /\ SendStep

\* usb_transport_send_direct, `result = CDC_Transmit_FS(buffer, length);`
SendDirectTransmit ==
    /\ cpc = "send_direct_transmit"
    /\ \E result \in CdcResults :
          /\ cdc' = CDC_Transmit_FS(TxCurrent, result).cdc
          /\ creg' = [creg EXCEPT !.h = IF result = "USBD_OK" THEN 1 ELSE 0]
    /\ cpc' = "send_direct_store"
    /\ last' = [op |-> "CDC_Transmit_FS"]
    /\ UNCHANGED <<tx, stats, tx_in_progress, calls>>
    /\ SendStep

\* usb_transport_send_direct, `if (result == USBD_OK) { tx_in_progress =
\* true; stats.tx_bytes_total += length; return true; } return false;`
SendDirectStore ==
    /\ cpc = "send_direct_store"
    /\ IF creg.h = 1
       THEN /\ tx_in_progress' = TRUE
            /\ stats' = [stats EXCEPT !.tx_bytes_total = @ + creg.n]
       ELSE UNCHANGED <<tx_in_progress, stats>>
    /\ last' = [op |-> "usb_transport_send_direct", ret |-> (creg.h = 1),
                called |-> TRUE, length |-> creg.n,
                result |-> IF creg.h = 1 THEN "USBD_OK" ELSE "USBD_BUSY"]
    /\ cpc' = "idle"
    /\ creg' = NoRegs
    /\ UNCHANGED <<tx, cdc, calls>>
    /\ SendStep

\* Plausible slip: the poll looks at the fill level only.
MayFlush_IgnoreFlag(t) == ~ring_buffer_is_empty(t.tx)

\* The tests that lead usb_transport_process into tx_flush and tx_flush to
\* its read: no transfer in flight, and bytes queued.
MayFlush(t) == ~t.tx_in_progress /\ ~ring_buffer_is_empty(t.tx)

\* usb_transport_process with tx_flush up to ring_buffer_read_multiple: the
\* two reads of tx_in_progress, the fill level, and the bytes moved to
\* temp_buffer.  (The interrupt only clears the flag, so a completion
\* between these statements changes nothing they see as false.)
ProcessCheck ==
    /\ cpc = "idle"
    /\ calls < MaxCalls
    /\ calls' = calls + 1
    /\ IF MayFlush(TxCurrent)
       THEN \E rd \in {ring_buffer_read_multiple(tx,
                          IF ring_buffer_available(tx) > 64 THEN 64
                          ELSE ring_buffer_available(tx))} :
               /\ tx' = rd.rb
               /\ creg' = [NoRegs EXCEPT !.call = "tx_flush", !.n = rd.ret,
                                         !.out = rd.out]
               /\ cpc' = "tx_flush_transmit"
               /\ last' = [op |-> "tx_flush_read"]
       ELSE /\ UNCHANGED tx
            /\ cpc' = "idle"
            /\ creg' = NoRegs
            /\ last' = [op |-> "usb_transport_process", called |-> FALSE,
                        handed |-> <<>>, result |-> "none"]
    /\ UNCHANGED <<stats, tx_in_progress, cdc>>
    /\ SendStep

\* tx_flush, `CDC_Transmit_FS(temp_buffer, read_count) == USBD_OK`
FlushTransmit ==
    /\ cpc = "tx_flush_transmit"
    /\ \E result \in CdcResults :
          /\ cdc' = CDC_Transmit_FS(TxCurrent, result).cdc
          /\ creg' = [creg EXCEPT !.h = IF result = "USBD_OK" THEN 1 ELSE 0]
    /\ cpc' = "tx_flush_store"
    /\ last' = [op |-> "CDC_Transmit_FS"]
    /\ UNCHANGED <<tx, stats, tx_in_progress, calls>>
    /\ SendStep

\* tx_flush, `tx_in_progress = true;` or, when the device refused,
\* `ring_buffer_write_multiple(&tx_ring_buffer, temp_buffer, read_count);`
FlushStore ==
    /\ cpc = "tx_flush_store"
    /\ IF creg.h = 1
       THEN /\ tx_in_progress' = TRUE
            /\ UNCHANGED tx
       ELSE /\ tx' = ring_buffer_write_multiple(tx, creg.out).rb
            /\ UNCHANGED tx_in_progress
    /\ last' = [op |-> "usb_transport_process", called |-> TRUE,
                handed |-> creg.out,
                result |-> IF creg.h = 1 THEN "USBD_OK" ELSE "USBD_BUSY"]
    /\ cpc' = "idle"
    /\ creg' = NoRegs
    /\ UNCHANGED <<stats, cdc, calls>>
    /\ SendStep

NextRace ==
    \/ RaceWrite
    \/ SendDirectCheck
    \/ SendDirectTransmit
    \/ SendDirectStore
    \/ ProcessCheck
    \/ FlushTransmit
    \/ FlushStore
    \/ TxComplete

SpecRace == InitCmd /\ [][NextRace]_vars

\* C30 as stated: between two calls of the main loop the in-flight flag is
\* set only while a transfer the device accepted has not completed yet; once
\* every accepted transfer has completed the flag is clear, so that the next
\* send is accepted.
C30_FlagOnlyWhileInFlight ==
    (cpc = "idle" /\ tx_in_progress) => cdc.in_flight > 0

(***************************************************************************)
(* SpecOrder: the order of the bytes on the buffered send path.  The       *)
(* history variables of the inbound channel are used for the outbound one: *)
(* `accepted` is the sequence of the bytes the write functions enqueued in *)
(* tx_ring_buffer, `delivered` the concatenation of the chunks the device  *)
(* accepted from tx_flush.                                                 *)
(***************************************************************************)
\* Buffers the application writes: 70 bytes (more than one chunk) and 5.
OrderBuffers ==
    { [k \in 1..70 |-> k], <<201, 202, 203, 204, 205>> }

\* What a call on the buffered send path leaves alone.
OrderCall ==
    /\ calls' = calls + 1
    /\ UNCHANGED <<rx, acquisition_state, integration_time_us, command_buffer, tim5,
                   events, line_chars, recent, sends>>
    /\ UNCHANGED <<cpc, creg, levels, chanVars, codecVars>>
    /\ RunsIn("loop")

OrderWrite ==
    /\ calls < MaxCalls
    /\ \E buffer \in OrderBuffers :
        \E w \in {usb_transport_write(TxCurrent, buffer)} :
            /\ TxHolds(w.t)
            /\ accepted' = accepted \o SubSeq(buffer, 1, w.ret)
            /\ UNCHANGED delivered
            /\ last' = [op |-> "usb_transport_write", ret |-> w.ret, data |-> buffer]
            /\ OrderCall

OrderProcess ==
    /\ calls < MaxCalls
    /\ \E result \in CdcResults :
        \E c \in {usb_transport_process(TxCurrent, result)} :
            /\ TxHolds(c.t)
            /\ delivered' = IF c.called /\ result = "USBD_OK"
                            THEN delivered \o c.handed ELSE delivered
            /\ UNCHANGED accepted
            /\ last' = [op |-> "usb_transport_process",
                        called |-> c.called, handed |-> c.handed,
                        result |-> IF c.called THEN result ELSE "none"]
            /\ OrderCall

NextOrder ==
    \/ OrderWrite
    \/ OrderProcess
    \/ TxComplete

\* After usb_transport_init and command_layer_init: the bytes enqueued so
\* far are the ones in the outbound channel, none has been handed over.
InitOrder ==
    /\ CmdInit
    /\ XferIdle
    /\ last = NoCall
    /\ ChanIdle
    /\ cpc = "idle"
    /\ creg = NoRegs
    /\ accepted = Content(tx)
    /\ delivered = <<>>
    /\ levels = {}
    /\ CodecIdle

SpecOrder == InitOrder /\ [][NextOrder]_vars

\* C31 as stated: the bytes the device has accepted from
\* usb_transport_process are, in order, a prefix of the bytes enqueued in
\* the outbound channel, whatever the fill level and also after the device
\* refused a chunk.
C31_DeliveredIsPrefix == IsPrefix(delivered, accepted)

(***************************************************************************)
(* SpecParam: the command engine fed with SET_INT_TIME lines whose payload *)
(* is empty, not a number, or negative.                                    *)
(***************************************************************************)
\* The packets of the host:
\*   "SET_INT_TIME:\n"
\*   "SET_INT_TIME:abc\n"
\*   "SET_INT_TIME:-\n"
\*   "SET_INT_TIME:-5\n"
\*   "SET_INT_TIME:-50\n"
\*   "SET_INT_TIME:-4294967286\n"
\*   "SET_INT_TIME:500\n"
\*   "START\n"
\*   "STOP\n"
ParamPackets ==
    { <<83, 69, 84, 95, 73, 78, 84, 95, 84, 73, 77, 69, 58, 10>>,
      <<83, 69, 84, 95, 73, 78, 84, 95, 84, 73, 77, 69, 58, 97, 98, 99, 10>>,
      <<83, 69, 84, 95, 73, 78, 84, 95, 84, 73, 77, 69, 58, 45, 10>>,
      <<83, 69, 84, 95, 73, 78, 84, 95, 84, 73, 77, 69, 58, 45, 53, 10>>,
      <<83, 69, 84, 95, 73, 78, 84, 95, 84, 73, 77, 69, 58, 45, 53, 48, 10>>,
      <<83, 69, 84, 95, 73, 78, 84, 95, 84, 73, 77, 69, 58, 45, 52, 50, 57, 52, 57, 54, 55, 50, 56, 54, 10>>,
      <<83, 69, 84, 95, 73, 78, 84, 95, 84, 73, 77, 69, 58, 53, 48, 48, 10>>,
      <<83, 84, 65, 82, 84, 10>>,
      <<83, 84, 79, 80, 10>> }

HostSendParams ==
    /\ sends < MaxSends
    /\ \E data \in ParamPackets : Receive(data)

NextParam ==
    \/ HostSendParams
    \/ CommandLayerProcess

SpecParam == InitCmd /\ [][NextParam]_vars

\* The payload d holds no decimal digit.
NoDigits(d) == \A k \in 1..Len(d) : d[k] \notin 48..57

MaxSplits == 3

\* The packets of the host:  "STA"  "RT\n"  "TUS\r\nST"  "OP\r\nSTART\n"
SplitPackets ==
    { <<83, 84, 65>>,
      <<82, 84, 10>>,
      <<84, 85, 83, 13, 10, 83, 84>>,
      <<79, 80, 13, 10, 83, 84, 65, 82, 84, 10>> }

\* Plausible slip: the accumulator is a local of the loop body, so what was
\* gathered by the previous pass is gone.
LoopPass_LocalBuffer(s, overflow) ==
    IF ring_buffer_available(s.rx) = 0 THEN s
    ELSE ProcessByte([s EXCEPT !.rx = ring_buffer_read(s.rx).rb,
                               !.command_buffer = <<>>],
                     ring_buffer_read(s.rx).out[1], overflow)

\* The while loop of command_layer_process() from its test to the end of
\* its body, once.
WhilePass(s, overflow) == LoopPass(s, overflow)

\* usb_transport_rx_callback(buffer, length) with a packet of the host.
SplitReceive ==
    /\ sends < MaxSplits
    /\ \E data \in SplitPackets :
          \E w \in {ring_buffer_write_multiple(rx, data)} :
             /\ rx' = w.rb
             /\ stats' = [stats EXCEPT
                             !.rx_bytes_total = @ + w.ret,
                             !.rx_overflow_count = IF w.ret < Len(data) THEN @ + 1 ELSE @]
             /\ accepted' = accepted \o SubSeq(data, 1, w.ret)
             /\ last' = [op |-> "rx_callback", ret |-> w.ret, length |-> Len(data),
                         data |-> data]
    /\ sends' = sends + 1
    /\ UNCHANGED <<tx, acquisition_state, integration_time_us, command_buffer, tim5,
                   events, line_chars, recent>>
    /\ UNCHANGED <<cpc, creg, delivered, levels, chanVars, codecVars>>
    /\ UNCHANGED <<tx_in_progress, cdc, calls>>
    /\ RunsIn("interrupt")

\* One pass of the loop of command_layer_process() with a byte available.
SplitPass ==
    /\ ring_buffer_available(rx) > 0
    /\ \E overflow \in AtoiOverflow :
          \E s \in {WhilePass(Current, overflow)} :
          /\ rx' = s.rx
          /\ tx' = s.tx
          /\ stats' = s.stats
          /\ acquisition_state' = s.acquisition_state
          /\ integration_time_us' = s.integration_time_us
          /\ command_buffer' = s.command_buffer
          /\ tim5' = s.tim5
          /\ events' = s.events
          /\ line_chars' = s.line_chars
          /\ recent' = MostRecent(s.events, recent)
          /\ delivered' = IF s.events # <<>> /\ s.events[1].kind = "dispatch"
                          THEN delivered \o s.events[1].cmd \o <<10>>
                          ELSE delivered
    /\ last' = [op |-> "command_layer_process", ret |-> 0,
                pending |-> ring_buffer_available(rx),
                tx_before |-> stats.tx_bytes_total]
    /\ UNCHANGED <<sends, cpc, creg, accepted, levels, chanVars, codecVars>>
    /\ UNCHANGED <<tx_in_progress, cdc, calls>>
    /\ RunsIn("loop")

NextSplit ==
    \/ SplitReceive
    \/ SplitPass

SpecSplit == InitCmd /\ [][NextSplit]_vars

\* The lines of the byte sequence q: each run of terminators that follows a
\* character becomes one '\n', terminators that follow none are left out.
RECURSIVE LinesOf(_)
LinesOf(q) ==
    IF q = <<>> THEN <<>>
    ELSE LET n == Len(q)
             front == LinesOf(SubSeq(q, 1, n - 1))
         IN IF q[n] \notin Terminators THEN Append(front, q[n])
            ELSE IF n > 1 /\ q[n - 1] \notin Terminators THEN Append(front, 10)
            ELSE front

\* The bytes the loop has taken from the inbound channel so far.
Consumed == SubSeq(accepted, 1, Len(accepted) - ring_buffer_available(rx))

C34_PartialLineKept ==
    [][(/\ last'.op = "usb_transport_read_line"
        /\ last'.ret = 0
        /\ \A k \in 1..Len(Content(rx)) : Content(rx)[k] \notin Terminators) =>
          rx' = rx]_vars

(***************************************************************************)
(* Further properties of the send paths, statement by statement (SpecRace).*)
(***************************************************************************)
\* C35: CDC_Transmit_FS is called only with tx_in_progress clear; at most
\* one transfer accepted from the transport is outstanding; and tx_flush
\* fills its staging buffer only when no accepted transfer is outstanding,
\* so the chunk the device is sending is not overwritten before its
\* completion callback.
C35_OneTransferAtATime ==
    /\ [](cdc.in_flight <= 1)
    /\ [][/\ last'.op = "CDC_Transmit_FS" => ~tx_in_progress
          /\ last'.op = "tx_flush_read" => cdc.in_flight = 0]_vars

\* 84 bytes were queued, the device accepted the first chunk of 64 and has
\* not completed it; the next poll left the other 20 bytes queued.
C35_Witness ==
    /\ cpc = "idle"
    /\ tx_in_progress
    /\ cdc.in_flight = 1
    /\ last.op = "usb_transport_process"
    /\ ~last.called
    /\ ring_buffer_available(tx) = 20

(***************************************************************************)
(* SpecStarve: frames and replies compete for the device.  The main loop   *)
(* offers frames with usb_transport_send_direct, polls the buffered path   *)
(* with usb_transport_process and resets the statistics, in any order and  *)
(* without end; the device accepts whatever it is offered and reports each *)
(* completion after the call that started the transfer has returned.       *)
(***************************************************************************)
\* Frames sent between two resets of the statistics.
MaxFrameSends == 4

\* sizeof(CCD_Frame_t)
FrameBytes == FRAME_HEADER_SIZE + 2 * CCD_PIXEL_COUNT + FRAME_FOOTER_SIZE

\* The device accepts every transfer it is offered.
Accepting == {"USBD_OK"}

\* usb_transport_reset_stats()
usb_transport_reset_stats(t) ==
    [t EXCEPT !.stats = [rx_bytes_total |-> 0, tx_bytes_total |-> 0,
                         rx_overflow_count |-> 0, tx_overflow_count |-> 0]]

\* What a call of the main loop into the transport leaves alone.
StarveCall ==
    /\ UNCHANGED <<rx, acquisition_state, integration_time_us, command_buffer, tim5,
                   events, line_chars, recent, sends, calls>>
    /\ UNCHANGED <<cpc, creg, accepted, delivered, levels, chanVars, codecVars>>
    /\ RunsIn("loop")

StarveSendDirect ==
    /\ stats.tx_bytes_total < MaxFrameSends * FrameBytes
    /\ \E length \in SendLengths, result \in Accepting :
          \E c \in {usb_transport_send_direct(TxCurrent, length, result)} :
             /\ TxHolds(c.t)
             /\ last' = [op |-> "usb_transport_send_direct", ret |-> c.ret,
                         called |-> c.called, length |-> length,
                         result |-> IF c.called THEN result ELSE "none"]
    /\ StarveCall

StarveProcess ==
    /\ \E result \in Accepting :
          \E c \in {usb_transport_process(TxCurrent, result)} :
             /\ TxHolds(c.t)
             /\ last' = [op |-> "usb_transport_process",
                         called |-> c.called, handed |-> c.handed,
                         result |-> IF c.called THEN result ELSE "none"]
    /\ StarveCall

StarveResetStats ==
    /\ stats.tx_bytes_total > 0
    /\ TxHolds(usb_transport_reset_stats(TxCurrent))
    /\ last' = [op |-> "usb_transport_reset_stats", before |-> stats.tx_bytes_total]
    /\ StarveCall

NextStarve ==
    \/ StarveSendDirect
    \/ StarveProcess
    \/ StarveResetStats
    \/ TxComplete

\* The loop calls usb_transport_process again and again, and every accepted
\* transfer completes.
SpecStarve ==
    /\ InitCmd
    /\ [][NextStarve]_vars
    /\ WF_vars(StarveProcess)
    /\ WF_vars(TxComplete)

\* C36 as stated: a reply queued in the outbound channel is eventually
\* handed to the device, whatever frames the loop sends in between.
C36_RepliesNotStarved ==
    (~ring_buffer_is_empty(tx)) ~> ring_buffer_is_empty(tx)

(***************************************************************************)
(* Further properties of the data layer (SpecCodec).                       *)
(***************************************************************************)
\* C37: a ccd_data_layer_process_readout call made before
\* ccd_data_layer_init, or with adc_buffer or frame_out NULL, returns
\* CCD_FRAME_ERROR_INVALID_DATA and changes neither frame_counter nor the
\* frame; a successful call stamps the frame with the counter as it was and
\* increments it, so the frame built after a failed call carries the number
\* the failed call found.
C37_FailedReadoutCountsNothing ==
    [][last'.op = "process_readout" =>
          IF ~initialized \/ last'.adc.null \/ last'.frame_null
          THEN /\ last'.ret = CCD_FRAME_ERROR_INVALID_DATA
               /\ frame_counter' = frame_counter
               /\ frame_out' = frame_out
          ELSE /\ last'.ret = CCD_FRAME_OK
               /\ LoadU16(frame_out', OffsetFrameCounter) = frame_counter
               /\ frame_counter' = U16(frame_counter + 1)]_vars

\* One frame has been built since the counter was 0, and the call after it
\* failed: the counter still reads 1.
C37_Witness ==
    /\ last.op = "process_readout"
    /\ last.ret = CCD_FRAME_ERROR_INVALID_DATA
    /\ initialized
    /\ built = 1
    /\ frame_counter = 1
    /\ LoadU16(frame_out, OffsetFrameCounter) = 0

(***************************************************************************)
(* SpecPeriod: command_handle_set_integration_time called once, while      *)
(* Idle, with each value from below the accepted range to above it.        *)
(***************************************************************************)
\* The range check of command_handle_set_integration_time.
MinIntegrationTime == 10
MaxIntegrationTime == 100000

\* The values of `microseconds`: the accepted ones and one on either side.
TimeInputs == (MinIntegrationTime - 1)..(MaxIntegrationTime + 1)

\* command_handle_set_integration_time(microseconds)
SetIntegrationTime ==
    /\ calls = 0
    /\ calls' = 1
    /\ \E microseconds \in TimeInputs :
          \E c \in {command_handle_set_integration_time(Current, microseconds)} :
             /\ tx' = c.s.tx
             /\ stats' = c.s.stats
             /\ acquisition_state' = c.s.acquisition_state
             /\ integration_time_us' = c.s.integration_time_us
             /\ tim5' = c.s.tim5
             /\ last' = [op |-> "command_handle_set_integration_time",
                         status |-> c.status, microseconds |-> microseconds]
    /\ UNCHANGED <<rx, command_buffer, events, line_chars, recent, sends>>
    /\ UNCHANGED <<cpc, creg, accepted, delivered, levels, chanVars, codecVars>>
    /\ UNCHANGED <<tx_in_progress, cdc>>
    /\ RunsIn("loop")

NextPeriod == SetIntegrationTime

SpecPeriod == InitCmd /\ [][NextPeriod]_vars

\* C38: for every n from 10 to 100000 the call is accepted and leaves the
\* period register at 84n - 1, a value that fits in 32 bits (even in 31),
\* and the compare register at 335, below the period.
C38_PeriodAboveCompare ==
    [][last'.op = "command_handle_set_integration_time" =>
          LET n == last'.microseconds IN
          IF MinIntegrationTime <= n /\ n <= MaxIntegrationTime
          THEN /\ last'.status = "CMD_OK"
               /\ tim5'.arr = 84 * n - 1
               /\ tim5'.arr <= INT_MAX
               /\ tim5'.ccr = 335
               /\ tim5'.ccr < tim5'.arr
               /\ integration_time_us' = n
          ELSE /\ last'.status = "CMD_ERROR_INVALID_PARAM"
               /\ tim5' = tim5]_vars

\* The shortest accepted time: period 839, compare 335.
C38_Witness ==
    /\ last.op = "command_handle_set_integration_time"
    /\ last.status = "CMD_OK"
    /\ last.microseconds = 10
    /\ tim5.arr = 839
    /\ tim5.ccr = 335
    /\ tim5.running

(***************************************************************************)
(* SpecAccum: the accumulator of command_layer_process() pass by pass, fed *)
(* with lines that fill it to the last place and beyond.                   *)
(***************************************************************************)
\* The packets of the host: 63 characters and '\n'; 64 characters without a
\* terminator; "\n"; "STOP\n".
AccumPackets ==
    { [k \in 1..64 |-> IF k = 64 THEN 10 ELSE 88],
      [k \in 1..64 |-> 88],
      <<10>>,
      <<83, 84, 79, 80, 10>> }

HostSendLong ==
    /\ sends < MaxSends
    /\ \E data \in AccumPackets : Receive(data)

NextAccum ==
    \/ HostSendLong
    \/ SplitPass

SpecAccum == InitCmd /\ [][NextAccum]_vars

\* C39: command_index (the length of the accumulated text) stays in 0..63;
\* a character is stored at an index of 0..62 and the terminating NUL at the
\* index the text ends at, 63 at most, both inside command_buffer[64]; and
\* command_index is 0 after a dispatch and after CMD_TOO_LONG.
C39_IndexInBuffer ==
    /\ [](Len(command_buffer) \in 0..(CMD_BUFFER_SIZE - 1))
    /\ [][last'.op = "command_layer_process" =>
            /\ Len(command_buffer') = Len(command_buffer) + 1 =>
                  Len(command_buffer) \in 0..(CMD_BUFFER_SIZE - 2)
            /\ \A i \in 1..Len(events') :
                  /\ events'[i].kind = "dispatch" =>
                        /\ Len(events'[i].cmd) \in 1..(CMD_BUFFER_SIZE - 1)
                        /\ command_buffer' = <<>>
                  /\ events'[i].kind = "too_long" =>
                        /\ Len(events'[i].cmd) = CMD_BUFFER_SIZE - 1
                        /\ command_buffer' = <<>>]_vars

\* A line of 63 characters has been dispatched: its NUL went to
\* command_buffer[63], and the index is back at 0.
C39_Witness ==
    /\ last.op = "command_layer_process"
    /\ events # <<>>
    /\ events[1].kind = "dispatch"
    /\ Len(events[1].cmd) = CMD_BUFFER_SIZE - 1
    /\ command_buffer = <<>>

\* C40 as stated: whatever max_length and the inbound content are,
\* usb_transport_read_line stores only into buffer[0 .. max_length-1]
\* (nowhere when max_length is 0), and a line with max_length-1 or more
\* characters in front of its terminator makes it return 0.
C40_WritesInsideBuffer ==
    [][last'.op = "usb_transport_read_line" =>
          LET c == Content(rx)
              max_length == last'.max_length
          IN /\ last'.below = Unwritten
             /\ Len(last'.buffer) = max_length
             /\ \A n \in LineAtFront(c) : n >= max_length - 1 => last'.ret = 0]_vars

=============================================================================
